---- MODULE Spec2Model ----
(***************************************************************************)
(* Model of the positioner driver (src/positioner.py, src/status.py).      *)
(*                                                                         *)
(* One session (a Positioner object) talks to one channel (the CAN bus).   *)
(* A step of the model is one interaction of the driver with the channel   *)
(* (one bus.send, one bus.recv) or the driver's handling of a finished     *)
(* transaction.  The channel and the device are the environment: send may  *)
(* succeed or raise, recv may return nothing, return a frame, or raise.    *)
(*                                                                         *)
(* Integers wider than 31 bits (unsigned 32-bit wire fields, products of   *)
(* the unit conversions) are kept as two limbs, value = hi * 2^16 + lo.    *)
(***************************************************************************)
EXTENDS Integers, Sequences, FiniteSets, TLC

\* ------------------------------------------------------------------ bounds
\* longest list of waypoints given to send_trajectory for one axis
MaxPoints == 2
\* largest firmware file, in bytes
MaxFileSize == 20

\* ------------------------------------------------------- program constants
CAN_ID_BIT_SHIFT == 18
COMMAND_BIT_SHIFT == 10
POSITION_RESOLUTION == 2^30
TIME_RESOLUTION == 2000
\* a variant of the receive budget that polls once more
RECV_ATTEMPTS_6 == 5 + 1
\* range(5) in _get_answer
RECV_ATTEMPTS == 5
\* f.read(8) in firmware_upgrade
CHUNK_SIZE == 8

Base == 2^16

\* ------------------------------------------------------------- unit codec
Norm(hi, lo) == [hi |-> hi + (lo \div Base), lo |-> lo % Base]
Wide(v) == Norm(0, v)

\* round(angle / 360 * 2^30), angle a whole number of degrees; Python's
\* round() takes a tie to the even neighbour
angle_to_position(angle) ==
    LET h  == angle * (POSITION_RESOLUTION \div Base)
        qh == h \div 360
        r1 == h % 360
        ql == (r1 * Base) \div 360
        r2 == (r1 * Base) % 360
        up == IF 2 * r2 > 360 \/ (2 * r2 = 360 /\ ql % 2 = 1) THEN 1 ELSE 0
    IN  Norm(qh, ql + up)

\* position / 2^30 * 360, as the exact ratio num / den
position_to_angle(position) ==
    [num |-> Norm(position.hi * 360, position.lo * 360), den |-> POSITION_RESOLUTION]

\* round(seconds * 2000), seconds a whole number
seconds_to_timestamp(seconds) ==
    Norm((seconds \div Base) * TIME_RESOLUTION, (seconds % Base) * TIME_RESOLUTION)

\* timestamp / 2000, as the exact ratio num / den
timestamp_to_seconds(timestamp) == [num |-> timestamp, den |-> TIME_RESOLUTION]

\* ----------------------------------------------------------- struct module
\* struct.pack range of one field: 'i' is a signed, 'I' an unsigned 32-bit
Fits(c, w) ==
    IF c = "i" THEN -(2^15) <= w.hi /\ w.hi < 2^15
               ELSE 0 <= w.hi /\ w.hi < 2^16

\* the 4 little-endian bytes of a 32-bit field (two's complement)
Bytes4(w) ==
    LET h == w.hi % Base
    IN  <<w.lo % 256, w.lo \div 256, h % 256, h \div 256>>

RECURSIVE Concat(_)
Concat(ss) == IF ss = <<>> THEN <<>> ELSE Head(ss) \o Concat(Tail(ss))

\* struct.pack('<' + fmt, vals): ok = FALSE stands for struct.error
pack(fmt, vals) ==
    IF \E i \in 1..Len(fmt) : ~Fits(fmt[i], vals[i])
    THEN [ok |-> FALSE, bytes |-> <<>>]
    ELSE [ok |-> TRUE, bytes |-> Concat([i \in 1..Len(fmt) |-> Bytes4(vals[i])])]

\* the size in bytes a format asks of the buffer it unpacks
calcsize(fmt) ==
    CASE fmt = "<Q" -> 8
      [] fmt = "<I" -> 4
      [] fmt = "BBBB" -> 4
      [] fmt = "<ii" -> 8
      [] fmt = "<II" -> 8
      [] fmt = "<ff" -> 8
      [] fmt = "<HHHH" -> 8
      [] OTHER -> 0

\* the little-endian value of bytes b[from .. from + n - 1], as limbs
Field(b, from, n) ==
    LET byte(k) == IF k < n THEN b[from + k] ELSE 0
    IN  [hi |-> byte(2) + 256 * byte(3), lo |-> byte(0) + 256 * byte(1)]

\* a 32-bit field read as two's complement
Signed(w) == IF w.hi >= 2^15 THEN [hi |-> w.hi - Base, lo |-> w.lo] ELSE w

\* struct.unpack(fmt, data): ok = FALSE stands for struct.error (the buffer
\* is not of the size the format asks for).  '<Q' is decoded by the status
\* register itself (StatusBits) and yields no limb value here; the two
\* fields of '<ff' are kept as their 32 raw bits.
unpack(fmt, data) ==
    IF Len(data) # calcsize(fmt) THEN [ok |-> FALSE, vals |-> <<>>]
    ELSE [ok |-> TRUE,
          vals |-> CASE fmt = "<I" -> <<Field(data, 1, 4)>>
                     [] fmt = "BBBB" -> [i \in 1..4 |-> Field(data, i, 1)]
                     [] fmt = "<HHHH" -> [i \in 1..4 |-> Field(data, 2 * i - 1, 2)]
                     [] fmt = "<ii" ->
                            <<Signed(Field(data, 1, 4)), Signed(Field(data, 5, 4))>>
                     [] fmt \in {"<II", "<ff"} ->
                            <<Field(data, 1, 4), Field(data, 5, 4)>>
                     [] OTHER -> <<>>]

\* ---------------------------------------------------------- status register
\* The union of src/status.py: the register is one value, kept as the set
\* of the indices of its 1 bits (bit 0 the least significant); asInt is
\* written from the 8 little-endian bytes of a '<Q' payload.
StatusBits(data) ==
    {k \in 0..(8 * Len(data) - 1) : (data[(k \div 8) + 1] \div (2^(k % 8))) % 2 = 1}

\* PositionerFlagBits: displacement_completed is the 9th declared flag
DISPLACEMENT_COMPLETED_BIT == 8
displacement_completed(st) == IF DISPLACEMENT_COMPLETED_BIT \in st THEN 1 ELSE 0

\* ------------------------------------------------------------------- _crc
\* zlib.crc32 chained over the lines of the file is the CRC-32 of the whole
\* file; 32-bit values are limbs, the polynomial is 0xEDB88320 reflected.
RECURSIVE Xor16(_, _, _)
Xor16(a, b, n) ==
    IF n = 0 THEN 0 ELSE ((a + b) % 2) + 2 * Xor16(a \div 2, b \div 2, n - 1)

XorW(v, w) == [hi |-> Xor16(v.hi, w.hi, 16), lo |-> Xor16(v.lo, w.lo, 16)]

CrcShift(c) ==
    LET s == [hi |-> c.hi \div 2, lo |-> (c.lo \div 2) + (c.hi % 2) * 2^15]
    IN  IF c.lo % 2 = 1 THEN XorW(s, [hi |-> 60856, lo |-> 33568]) ELSE s

\* (the tests on s.lo and on d.lo only make TLC evaluate the value before
\* it recurses; they are always true)
RECURSIVE CrcBits(_, _)
CrcBits(c, n) ==
    IF n = 0 THEN c
    ELSE LET s == CrcShift(c)
         IN  IF s.lo >= 0 THEN CrcBits(s, n - 1) ELSE s

RECURSIVE CrcBytes(_, _)
CrcBytes(c, bytes) ==
    IF bytes = <<>> THEN c
    ELSE LET d == CrcBits(XorW(c, [hi |-> 0, lo |-> Head(bytes)]), 8)
         IN  IF d.lo >= 0 THEN CrcBytes(d, Tail(bytes)) ELSE d

crc32(bytes) ==
    XorW(CrcBytes([hi |-> 65535, lo |-> 65535], bytes), [hi |-> 65535, lo |-> 65535])

\* the firmware file of a given size: byte i of the file holds i mod 256
FileBytes(size) == [i \in 1..size |-> i % 256]

\* the checksum of every file the model uploads, computed once
CrcTable == [size \in 0..MaxFileSize |-> crc32(FileBytes(size))]

crc(size) == CrcTable[size]

\* ------------------------------------------------------------ command table
\* RESPONSE_CODE_NUMBER of commands.py: the table from the response code (the
\* low 10 bits of a received identifier) to its name
RESPONSE_CODE_NUMBER == (0 :> "COMMAND_ACCEPTED") @@ (1 :> "VALUE_OUT_OF_RANGE")

\* a response code that is in no table: all 10 bits set
UnknownCode == 2^COMMAND_BIT_SHIFT - 1

\* RESPONSE_CODE_NUMBER[busid & (2**10 - 1)]: ok = FALSE stands for KeyError
get_response_code(busid) ==
    LET code == busid % (2^COMMAND_BIT_SHIFT)
    IN  IF code \in DOMAIN RESPONSE_CODE_NUMBER
        THEN [ok |-> TRUE, name |-> RESPONSE_CODE_NUMBER[code]]
        ELSE [ok |-> FALSE, name |-> ""]

\* ------------------------------------------------------------------ methods
\* A method of one transaction is described by: cmd, the command it sends;
\* req, how its request payload is packed ("" none, "angles" two angles as
\* '<ii', "II" two '<II' values, "I" one '<I' value); rc, whether the reply's
\* response code is looked up; fmt, the format the reply is unpacked with
\* ("" none); conv, the conversion of the unpacked fields; err, the error
\* logged when no reply came ("" none); value, whether the decoded fields
\* are returned.
get_id ==
    [cmd |-> "GET_ID", req |-> "", rc |-> TRUE, fmt |-> "<I", conv |-> "",
     err |-> "Error with command get_id", value |-> TRUE]
get_fw_version ==
    [cmd |-> "GET_FIRMWARE_VERSION", req |-> "", rc |-> TRUE, fmt |-> "BBBB", conv |-> "",
     err |-> "Error with command get_fw_version", value |-> TRUE]
get_position ==
    [cmd |-> "GET_ACTUAL_POSITION", req |-> "", rc |-> TRUE, fmt |-> "<ii", conv |-> "angle",
     err |-> "Error with command get_position", value |-> TRUE]
set_position ==
    [cmd |-> "SET_ACTUAL_POSITION", req |-> "angles", rc |-> TRUE, fmt |-> "", conv |-> "",
     err |-> "Error with command set_position", value |-> FALSE]
goto_absolute ==
    [cmd |-> "GOTO_POSITION_ABSOLUTE", req |-> "angles", rc |-> TRUE, fmt |-> "<II", conv |-> "time",
     err |-> "Error with command goto absolute", value |-> TRUE]
goto_relative ==
    [cmd |-> "GOTO_POSITION_RELATIVE", req |-> "angles", rc |-> TRUE, fmt |-> "<II", conv |-> "time",
     err |-> "Error with command goto position relative", value |-> TRUE]
set_speed ==
    [cmd |-> "SET_SPEED", req |-> "II", rc |-> TRUE, fmt |-> "", conv |-> "",
     err |-> "Error with command set speed", value |-> FALSE]
set_current ==
    [cmd |-> "SET_CURRENT", req |-> "II", rc |-> TRUE, fmt |-> "", conv |-> "",
     err |-> "Error with command set current", value |-> FALSE]
set_low_current ==
    [cmd |-> "SET_LOW_POWER_CURRENT", req |-> "II", rc |-> TRUE, fmt |-> "", conv |-> "",
     err |-> "Error with command set low current", value |-> FALSE]
\* the command is SWITCH_ON_HALL_AFTER_MOVE_CMD when enable is not True
set_low_power_mode ==
    [cmd |-> "SWITCH_OFF_HALL_AFTER_MOVE_CMD", req |-> "", rc |-> TRUE, fmt |-> "", conv |-> "",
     err |-> "Error with command set low power mode", value |-> FALSE]
initialize_datums ==
    [cmd |-> "INITIALIZE_DATUMS", req |-> "", rc |-> TRUE, fmt |-> "", conv |-> "",
     err |-> "Error with command initialize datums", value |-> FALSE]
initialize_datum_alpha ==
    [cmd |-> "GOTO_DATUM_ALPHA", req |-> "", rc |-> TRUE, fmt |-> "", conv |-> "",
     err |-> "Error with command initialize datum alpha", value |-> FALSE]
initialize_datum_beta ==
    [cmd |-> "GOTO_DATUM_BETA", req |-> "", rc |-> TRUE, fmt |-> "", conv |-> "",
     err |-> "Error with command initialize datum beta", value |-> FALSE]
start_trajectory ==
    [cmd |-> "START_TRAJECTORY", req |-> "", rc |-> TRUE, fmt |-> "", conv |-> "",
     err |-> "", value |-> FALSE]
stop_trajectory ==
    [cmd |-> "STOP_TRAJECTORY", req |-> "", rc |-> TRUE, fmt |-> "", conv |-> "",
     err |-> "", value |-> FALSE]
get_v_main ==
    [cmd |-> "GET_ADC_ONE", req |-> "", rc |-> TRUE, fmt |-> "<I", conv |-> "",
     err |-> "Error with command get_v_main", value |-> TRUE]
get_power ==
    [cmd |-> "GET_MOTOR_POWER", req |-> "", rc |-> TRUE, fmt |-> "<ii", conv |-> "",
     err |-> "Error with command get_power", value |-> TRUE]
get_hall ==
    [cmd |-> "GET_HALL_POS", req |-> "", rc |-> TRUE, fmt |-> "<ff", conv |-> "",
     err |-> "Error with command get_power", value |-> TRUE]
get_hall_output ==
    [cmd |-> "GET_HALL_OUTPUT", req |-> "", rc |-> TRUE, fmt |-> "<ii", conv |-> "angle",
     err |-> "Error with command get_power", value |-> TRUE]
erase_flash ==
    [cmd |-> "ERASE_EXT_FLASH", req |-> "", rc |-> TRUE, fmt |-> "", conv |-> "",
     err |-> "", value |-> FALSE]
read_flash ==
    [cmd |-> "READ_EXT_FLASH", req |-> "I", rc |-> FALSE, fmt |-> "<I", conv |-> "",
     err |-> "Error with command read_flash", value |-> TRUE]
write_flash ==
    [cmd |-> "WRITE_EXT_FLASH", req |-> "II", rc |-> TRUE, fmt |-> "", conv |-> "",
     err |-> "Error with command write_flash", value |-> FALSE]
request_reboot ==
    [cmd |-> "REQUEST_REBOOT", req |-> "", rc |-> TRUE, fmt |-> "", conv |-> "",
     err |-> "Error with command request reboot", value |-> FALSE]
calib_motors ==
    [cmd |-> "CALIB_MOTORS", req |-> "", rc |-> TRUE, fmt |-> "", conv |-> "",
     err |-> "Error with command CALIB_MOTORS", value |-> FALSE]

SimpleMethods ==
    {"get_id", "get_fw_version", "get_position", "set_position", "goto_absolute",
     "goto_relative", "set_speed", "set_current", "set_low_current",
     "set_low_power_mode", "initialize_datums", "initialize_datum_alpha",
     "initialize_datum_beta", "start_trajectory", "stop_trajectory", "get_v_main",
     "get_power", "get_hall", "get_hall_output", "erase_flash", "read_flash",
     "write_flash", "request_reboot", "calib_motors"}

Descriptor(m) ==
    CASE m = "get_id" -> get_id
      [] m = "get_fw_version" -> get_fw_version
      [] m = "get_position" -> get_position
      [] m = "set_position" -> set_position
      [] m = "goto_absolute" -> goto_absolute
      [] m = "goto_relative" -> goto_relative
      [] m = "set_speed" -> set_speed
      [] m = "set_current" -> set_current
      [] m = "set_low_current" -> set_low_current
      [] m = "set_low_power_mode" -> set_low_power_mode
      [] m = "initialize_datums" -> initialize_datums
      [] m = "initialize_datum_alpha" -> initialize_datum_alpha
      [] m = "initialize_datum_beta" -> initialize_datum_beta
      [] m = "start_trajectory" -> start_trajectory
      [] m = "stop_trajectory" -> stop_trajectory
      [] m = "get_v_main" -> get_v_main
      [] m = "get_power" -> get_power
      [] m = "get_hall" -> get_hall
      [] m = "get_hall_output" -> get_hall_output
      [] m = "erase_flash" -> erase_flash
      [] m = "read_flash" -> read_flash
      [] m = "write_flash" -> write_flash
      [] m = "request_reboot" -> request_reboot
      [] m = "calib_motors" -> calib_motors

\* A paired axis method sends the alpha command, then the beta command; the
\* error it logs for a command without reply is 'Error with command ' + cmd.
set_mode_open_loop ==
    [alpha |-> "SET_ALPHA_OPEN_LOOP_NO_COLL_DETECT", beta |-> "SET_BETA_OPEN_LOOP_NO_COLL_DETECT"]
set_mode_closed_loop ==
    [alpha |-> "SET_ALPHA_CLOSED_LOOP", beta |-> "SET_BETA_CLOSED_LOOP"]
set_mode_closed_loop_no_colision ==
    [alpha |-> "SET_ALPHA_CLOSED_LOOP_NO_COLL_DETECT", beta |-> "SET_BETA_CLOSED_LOOP_NO_COLL_DETECT"]
set_precision_mode_off ==
    [alpha |-> "SWITCH_OFF_PRECISE_ALPHA", beta |-> "SWITCH_OFF_PRECISE_BETA"]
set_precision_mode_on ==
    [alpha |-> "SWITCH_ON_PRECISE_ALPHA", beta |-> "SWITCH_ON_PRECISE_BETA"]

PairedMethods ==
    {"set_mode_open_loop", "set_mode_closed_loop", "set_mode_closed_loop_no_colision",
     "set_precision_mode_off", "set_precision_mode_on"}

Pair(m) ==
    CASE m = "set_mode_open_loop" -> set_mode_open_loop
      [] m = "set_mode_closed_loop" -> set_mode_closed_loop
      [] m = "set_mode_closed_loop_no_colision" -> set_mode_closed_loop_no_colision
      [] m = "set_precision_mode_off" -> set_precision_mode_off
      [] m = "set_precision_mode_on" -> set_precision_mode_on

StatusMethods == {"get_status", "wait_move"}

Methods ==
    SimpleMethods \cup PairedMethods \cup StatusMethods
        \cup {"get_hall_calibration", "send_trajectory", "firmware_upgrade"}

\* ------------------------------------------------------------------- inputs
ArgValues == {-90, 90, 720}
\* a waypoint time whose timestamp lies between 2^31 and 2^32
LongTime == 2^20 + 2^15
\* waypoints <<angle in degrees, time in seconds>>
AlphaPoints == {<<-90, 2>>, <<45, LongTime>>}
BetaPoints == {<<0, 0>>, <<30, 3>>}
SeqsUpTo(S, n) == UNION {[1..k -> S] : k \in 0..n}

CanIds == {5}

\* what the channel may deliver: a status payload with no flag set, one with
\* only displacement_completed set, a 4-byte payload; each under a known
\* and under an unknown response code
ReplyData == {<<0, 0, 0, 0, 0, 0, 0, 0>>, <<0, 1, 0, 0, 0, 0, 0, 0>>, <<7, 0, 0, 0>>}
ReplyFrames(id) ==
    {[arbitration_id |-> id * 2^CAN_ID_BIT_SHIFT + code, data |-> d] :
        code \in {0, UnknownCode}, d \in ReplyData}

DefaultArgs ==
    [x |-> 0, y |-> 0, enable |-> FALSE, alpha |-> <<>>, beta |-> <<>>, filesize |-> 0]

ArgSets(m) ==
    CASE m \in SimpleMethods /\ Descriptor(m).req \in {"angles", "II"} ->
            {[DefaultArgs EXCEPT !.x = a, !.y = b] : a \in ArgValues, b \in ArgValues}
      [] m \in SimpleMethods /\ Descriptor(m).req = "I" ->
            {[DefaultArgs EXCEPT !.x = a] : a \in ArgValues}
      [] m = "set_low_power_mode" ->
            {[DefaultArgs EXCEPT !.enable = e] : e \in BOOLEAN}
      [] m = "send_trajectory" ->
            {[DefaultArgs EXCEPT !.alpha = a, !.beta = b] :
                a \in SeqsUpTo(AlphaPoints, MaxPoints), b \in SeqsUpTo(BetaPoints, MaxPoints)}
      [] m = "firmware_upgrade" ->
            {[DefaultArgs EXCEPT !.filesize = n] : n \in 0..MaxFileSize}
      [] OTHER -> {DefaultArgs}

\* -------------------------------------------------------------------- state
VARIABLES
    canid,              \* Positioner._canid
    status,             \* Positioner.status, the set of its 1 bits
    bootloader_status,  \* Positioner.bootloader_status, the set of its 1 bits
    op,                 \* the public method running or last run ("none" at first)
    args,               \* its arguments
    pc,                 \* "idle", "send", "recv", "handle", "done" or "raised"
    tx,                 \* the index of its current transaction
    cur,                \* <<what packing the current transaction's frame gave>>
    transfered_data,    \* firmware_upgrade's count of the bytes read
    hall_alpha,         \* get_hall_calibration's values of the alpha sensors
    sent,               \* the last frames handed to bus.send by this method
    sendOk,             \* whether bus.send took the current transaction's frame
    rxlog,              \* what each bus.recv of the current transaction gave
    answer,             \* what _get_answer returned: <<>> for None, or <<frame>>
    logs,               \* the log entries the last step emitted
    ret,                \* the value the method returned
    exc,                \* the exception the method raised ("" when none)
    channel             \* the kinds of late replies waiting in the channel

vars ==
    <<canid, status, bootloader_status, op, args, pc, tx, cur, transfered_data,
      hall_alpha, sent, sendOk, rxlog, answer, logs, ret, exc, channel>>

None == [some |-> FALSE, val |-> <<>>]
Some(v) == [some |-> TRUE, val |-> v]
Error(msg) == [level |-> "error", msg |-> msg]
Info(msg) == [level |-> "info", msg |-> msg]
Frame(cmd, bytes) == [cmd |-> cmd, data |-> bytes]

\* the frames kept in sent: a whole trajectory upload
MaxSent == 2 * MaxPoints + 2
Push(s, f) == IF Len(s) < MaxSent THEN Append(s, f) ELSE Append(Tail(s), f)

\* __init__: both status registers are created zeroed
Init ==
    /\ canid \in CanIds
    /\ status = {}
    /\ bootloader_status = {}
    /\ op = "none"
    /\ args = DefaultArgs
    /\ pc = "idle"
    /\ tx = 0
    /\ cur = <<>>
    /\ transfered_data = 0
    /\ hall_alpha = <<>>
    /\ sent = <<>>
    /\ sendOk = TRUE
    /\ rxlog = <<>>
    /\ answer = <<>>
    /\ logs = <<>>
    /\ ret = None
    /\ exc = ""
    /\ channel = {}

\* how a step of a method ends
Return(v) == pc' = "done" /\ ret' = v /\ exc' = "" /\ cur' = <<>> /\ tx' = tx
Raise(e) == pc' = "raised" /\ exc' = e /\ ret' = None /\ cur' = <<>> /\ tx' = tx /\ logs' = <<>>
NextTx(f) == pc' = "send" /\ cur' = <<f>> /\ tx' = tx + 1 /\ ret' = ret /\ exc' = exc
Packed(c, p) == [ok |-> p.ok, frame |-> Frame(c, p.bytes)]
Plain(c) == [ok |-> TRUE, frame |-> Frame(c, <<>>)]

\* ------------------------------------------------ the frames a method builds
Payload(req, a) ==
    CASE req = "angles" ->
            pack(<<"i", "i">>, <<angle_to_position(a.x), angle_to_position(a.y)>>)
      [] req = "II" -> pack(<<"I", "I">>, <<Wide(a.x), Wide(a.y)>>)
      [] req = "I" -> pack(<<"I">>, <<Wide(a.x)>>)
      [] OTHER -> [ok |-> TRUE, bytes |-> <<>>]

\* one waypoint of send_trajectory: struct.pack('<ii', position, timestamp)
Waypoint(coordinate) ==
    pack(<<"i", "i">>,
         <<angle_to_position(coordinate[1]), seconds_to_timestamp(coordinate[2])>>)

\* the frame of send_trajectory's k-th transaction
TrajectoryFrame(a, k) ==
    LET n == Len(a.alpha)
        m == Len(a.beta)
        p == IF k = 1 THEN pack(<<"i", "i">>, <<Wide(n), Wide(m)>>)
             ELSE IF k <= n + 1 THEN Waypoint(a.alpha[k - 1])
             ELSE IF k <= n + m + 1 THEN Waypoint(a.beta[k - n - 1])
             ELSE [ok |-> TRUE, bytes |-> <<>>]
        c == IF k = 1 THEN "SEND_TRAJECTORY_NEW"
             ELSE IF k <= n + m + 1 THEN "SEND_TRAJECTORY_DATA"
             ELSE "SEND_TRAJECTORY_DATA_END"
    IN  Packed(c, p)

\* a variant of the file read that takes one byte less at a time
FileRead_short(size, pos) ==
    LET last == IF pos + CHUNK_SIZE - 1 < size THEN pos + CHUNK_SIZE - 1 ELSE size
    IN  SubSeq(FileBytes(size), pos + 1, last)

\* a variant of the file read on a file that is longer than the size
\* announced: every read gives 8 bytes
FileRead_longer(size, pos) == [i \in 1..CHUNK_SIZE |-> (pos + i) % 256]

\* f.read(8) at file position pos of a file of the given size
FileRead(size, pos) ==
    LET last == IF pos + CHUNK_SIZE < size THEN pos + CHUNK_SIZE ELSE size
    IN  SubSeq(FileBytes(size), pos + 1, last)

\* the first frame of a method, built from its arguments; ok = FALSE when
\* struct.pack raises instead
FirstFrame(m, a) ==
    CASE m \in SimpleMethods ->
            LET d == Descriptor(m)
                c == IF m = "set_low_power_mode" /\ ~a.enable
                     THEN "SWITCH_ON_HALL_AFTER_MOVE_CMD" ELSE d.cmd
                p == Payload(d.req, a)
            IN  Packed(c, p)
      [] m \in PairedMethods -> Plain(Pair(m).alpha)
      [] m \in StatusMethods -> Plain("GET_STATUS")
      [] m = "get_hall_calibration" -> Plain("GET_ALPHA_HALL_CALIB")
      [] m = "send_trajectory" -> TrajectoryFrame(a, 1)
      [] m = "firmware_upgrade" ->
            Packed("SEND_NEW_FIRMWARE",
                   pack(<<"I", "I">>, <<Wide(a.filesize), crc(a.filesize)>>))

\* ------------------------------------------------------------------ actions
\* The caller invokes a public method, which comes to its first transaction.
\* Methods are called one after another on the session.
Call ==
    /\ pc = "idle"
    /\ \E m \in Methods : \E a \in ArgSets(m) :
        /\ op' = m
        /\ args' = a
        /\ cur' = <<FirstFrame(m, a)>>
    /\ pc' = "send"
    /\ exc' = ""
    /\ tx' = 1
    /\ transfered_data' = 0
    /\ hall_alpha' = <<>>
    /\ sent' = <<>>
    /\ sendOk' = TRUE
    /\ rxlog' = <<>>
    /\ answer' = <<>>
    /\ logs' = <<>>
    /\ ret' = None
    /\ UNCHANGED <<canid, status, bootloader_status, channel>>

\* a variant of _send_command after which the method does not call
\* _get_answer: it goes on as if no reply had come
send_command_no_wait ==
    /\ pc = "send"
    /\ cur[1].ok
    /\ \E ok \in BOOLEAN :
        /\ sendOk' = ok
        /\ logs' = IF ok THEN <<>>
                   ELSE <<Error("Error sending message"), Error("exception")>>
    /\ sent' = Push(sent, cur[1].frame)
    /\ rxlog' = <<>>
    /\ answer' = <<>>
    /\ pc' = "handle"
    /\ UNCHANGED <<canid, status, bootloader_status, op, args, tx, cur,
                   transfered_data, hall_alpha, ret, exc, channel>>

\* _send_command: the frame is handed to bus.send, which takes it or raises;
\* a raise is logged and swallowed, and the method goes on to _get_answer
send_command ==
    /\ pc = "send"
    /\ cur[1].ok
    /\ \E ok \in BOOLEAN :
        /\ sendOk' = ok
        /\ logs' = IF ok THEN <<>>
                   ELSE <<Error("Error sending message"), Error("exception")>>
    /\ sent' = Push(sent, cur[1].frame)
    /\ rxlog' = <<>>
    /\ answer' = <<>>
    /\ pc' = "recv"
    /\ UNCHANGED <<canid, status, bootloader_status, op, args, tx, cur,
                   transfered_data, hall_alpha, ret, exc, channel>>

\* struct.pack raises on a value out of the range of its format: the method
\* ends with struct.error, the frame is never built
pack_error ==
    /\ pc = "send"
    /\ ~cur[1].ok
    /\ Raise("struct.error")
    /\ UNCHANGED <<canid, status, bootloader_status, op, args, transfered_data,
                   hall_alpha, sent, sendOk, rxlog, answer, channel>>

\* The channel is shared (demoInit.py opens two sessions on one bus) and
\* keeps what it was given: the device's reply to a transaction may come
\* after the transaction's receive phase is over, and then waits in the
\* channel for the next receive, of this session ("earlier") or of another
\* ("other").  Late(over) is what the end of a receive phase may leave.
OtherCanId == 0
Late(over) == IF over THEN {{}, {"earlier"}} ELSE {{}}
Received(kind) == ReplyFrames(IF kind = "other" THEN OtherCanId ELSE canid)

\* a variant of _get_answer with the try inside the loop: a receive call
\* that raised is logged and the next attempt is made
get_answer_in_loop ==
    /\ pc = "recv"
    /\ Len(rxlog) < RECV_ATTEMPTS
    /\ \/ /\ rxlog' = Append(rxlog, [kind |-> "none", frame |-> <<>>, of |-> ""])
          /\ answer' = <<>>
          /\ logs' = <<>>
          /\ pc' = IF Len(rxlog') < RECV_ATTEMPTS THEN "recv" ELSE "handle"
          /\ \E l \in Late(Len(rxlog') = RECV_ATTEMPTS) : channel' = channel \cup l
       \/ \E k \in {"this"} \cup channel : \E f \in Received(k) :
          /\ rxlog' = Append(rxlog, [kind |-> "frame", frame |-> <<f>>, of |-> k])
          /\ answer' = <<f>>
          /\ logs' = <<>>
          /\ pc' = "handle"
          /\ \E l \in Late(k # "this") : channel' = (channel \ {k}) \cup l
       \/ /\ rxlog' = Append(rxlog, [kind |-> "raise", frame |-> <<>>, of |-> ""])
          /\ answer' = <<>>
          /\ logs' = <<Error("Error getting message"), Error("exception")>>
          /\ pc' = IF Len(rxlog') < RECV_ATTEMPTS THEN "recv" ELSE "handle"
          /\ \E l \in Late(TRUE) : channel' = channel \cup l
    /\ UNCHANGED <<canid, status, bootloader_status, op, args, tx, cur,
                   transfered_data, hall_alpha, sent, sendOk, ret, exc>>


\* _get_answer, one turn of its loop: bus.recv(1) gives nothing, a frame, or
\* raises.  A frame is returned at once; a raise is logged and None is
\* returned; after the last turn None is returned.  The frame is the reply
\* to this transaction ("this") or a late reply that waited in the channel.
get_answer ==
    /\ pc = "recv"
    /\ Len(rxlog) < RECV_ATTEMPTS
    /\ \/ /\ rxlog' = Append(rxlog, [kind |-> "none", frame |-> <<>>, of |-> ""])
          /\ answer' = <<>>
          /\ logs' = <<>>
          /\ pc' = IF Len(rxlog') < RECV_ATTEMPTS THEN "recv" ELSE "handle"
          /\ \E l \in Late(Len(rxlog') = RECV_ATTEMPTS) : channel' = channel \cup l
       \/ \E k \in {"this"} \cup channel : \E f \in Received(k) :
          /\ rxlog' = Append(rxlog, [kind |-> "frame", frame |-> <<f>>, of |-> k])
          /\ answer' = <<f>>
          /\ logs' = <<>>
          /\ pc' = "handle"
          /\ \E l \in Late(k # "this") : channel' = (channel \ {k}) \cup l
       \/ /\ rxlog' = Append(rxlog, [kind |-> "raise", frame |-> <<>>, of |-> ""])
          /\ answer' = <<>>
          /\ logs' = <<Error("Error getting message"), Error("exception")>>
          /\ pc' = "handle"
          /\ \E l \in Late(TRUE) : channel' = channel \cup l
    /\ UNCHANGED <<canid, status, bootloader_status, op, args, tx, cur,
                   transfered_data, hall_alpha, sent, sendOk, ret, exc>>

\* Between two methods of this session, the other session on the channel
\* runs a transaction of its own to the end, and its reply comes late.
OtherSession ==
    /\ pc = "idle"
    /\ "other" \notin channel
    /\ channel' = channel \cup {"other"}
    /\ UNCHANGED <<canid, status, bootloader_status, op, args, pc, tx, cur,
                   transfered_data, hall_alpha, sent, sendOk, rxlog, answer,
                   logs, ret, exc>>

\* what every handling step leaves alone
Kept ==
    UNCHANGED <<canid, bootloader_status, op, args, sent, sendOk, rxlog, answer, channel>>

\* whether the reply's response code is in the table (else KeyError)
KnownReply == get_response_code(answer[1].arbitration_id).ok

\* the fields a method of one transaction returns
Decode(d, data) ==
    LET v == unpack(d.fmt, data).vals
    IN  CASE d.conv = "angle" -> [i \in 1..Len(v) |-> position_to_angle(v[i])]
          [] d.conv = "time" -> [i \in 1..Len(v) |-> timestamp_to_seconds(v[i])]
          [] OTHER -> v

\* a variant of the methods of one transaction without the test for None:
\* the reply is decoded whether it came or not
simple_method_unchecked ==
    /\ pc = "handle"
    /\ op \in SimpleMethods
    /\ LET d == Descriptor(op)
       IN  IF answer = <<>> THEN Raise("AttributeError")
           ELSE IF d.rc /\ ~KnownReply THEN Raise("KeyError")
           ELSE IF d.fmt # "" /\ ~unpack(d.fmt, answer[1].data).ok
           THEN Raise("struct.error")
           ELSE /\ logs' = <<>>
                /\ Return(IF d.value THEN Some(Decode(d, answer[1].data)) ELSE None)
    /\ Kept
    /\ UNCHANGED <<status, transfered_data, hall_alpha>>

\* The methods of one transaction, after _get_answer: with a reply, the
\* response code is looked up and the payload unpacked; without one, the
\* method's error (if it has one) is logged and None returned.
simple_method ==
    /\ pc = "handle"
    /\ op \in SimpleMethods
    /\ LET d == Descriptor(op)
       IN  IF answer # <<>>
           THEN IF d.rc /\ ~KnownReply THEN Raise("KeyError")
                ELSE IF d.fmt # "" /\ ~unpack(d.fmt, answer[1].data).ok
                THEN Raise("struct.error")
                ELSE /\ logs' = <<>>
                     /\ Return(IF d.value THEN Some(Decode(d, answer[1].data)) ELSE None)
           ELSE /\ logs' = IF d.err # "" THEN <<Error(d.err)>> ELSE <<>>
                /\ Return(None)
    /\ Kept
    /\ UNCHANGED <<status, transfered_data, hall_alpha>>

\* a variant of the paired axis methods that goes on to the beta command
\* when the alpha command had no reply
paired_method_no_abort ==
    /\ pc = "handle"
    /\ op \in PairedMethods
    /\ LET p == Pair(op)
           c == IF tx = 1 THEN p.alpha ELSE p.beta
       IN  IF answer # <<>> /\ ~KnownReply THEN Raise("KeyError")
           ELSE /\ logs' = IF answer = <<>>
                           THEN <<Error("Error with command " \o c)>> ELSE <<>>
                /\ IF tx = 1 THEN NextTx(Plain(p.beta)) ELSE Return(None)
    /\ Kept
    /\ UNCHANGED <<status, transfered_data, hall_alpha>>

\* a variant of the paired axis methods that sends the beta command once
\* more when it had no reply
paired_method_retry ==
    /\ pc = "handle"
    /\ op \in PairedMethods
    /\ LET p == Pair(op)
           c == IF tx = 1 THEN p.alpha ELSE p.beta
       IN  IF answer = <<>> /\ tx # 2
           THEN /\ logs' = <<Error("Error with command " \o c)>>
                /\ Return(None)
           ELSE IF answer # <<>> /\ ~KnownReply THEN Raise("KeyError")
           ELSE /\ logs' = <<>>
                /\ IF tx = 1 \/ (tx = 2 /\ answer = <<>>)
                   THEN NextTx(Plain(p.beta)) ELSE Return(None)
    /\ Kept
    /\ UNCHANGED <<status, transfered_data, hall_alpha>>

\* The paired axis methods: the alpha command, then the beta command; a
\* command without reply is logged and ends the method.
paired_method ==
    /\ pc = "handle"
    /\ op \in PairedMethods
    /\ LET p == Pair(op)
           c == IF tx = 1 THEN p.alpha ELSE p.beta
       IN  IF answer = <<>>
           THEN /\ logs' = <<Error("Error with command " \o c)>>
                /\ Return(None)
           ELSE IF ~KnownReply THEN Raise("KeyError")
           ELSE /\ logs' = <<>>
                /\ IF tx = 1 THEN NextTx(Plain(p.beta)) ELSE Return(None)
    /\ Kept
    /\ UNCHANGED <<status, transfered_data, hall_alpha>>

get_hall_calibration ==
    /\ pc = "handle"
    /\ op = "get_hall_calibration"
    /\ IF answer = <<>>
       THEN /\ logs' = <<Error("Error with command get hall calibration")>>
            /\ Return(None)
            /\ hall_alpha' = hall_alpha
       ELSE LET u == unpack("<HHHH", answer[1].data)
            IN  IF ~u.ok THEN Raise("struct.error") /\ hall_alpha' = hall_alpha
                ELSE /\ logs' = <<>>
                     /\ IF tx = 1
                        THEN /\ NextTx(Plain("GET_BETA_HALL_CALIB"))
                             /\ hall_alpha' = u.vals
                        ELSE /\ Return(Some(hall_alpha \o u.vals))
                             /\ hall_alpha' = hall_alpha
    /\ Kept
    /\ UNCHANGED <<status, transfered_data>>

\* a variant of send_trajectory that uploads the waypoints whether
\* SEND_TRAJECTORY_NEW had a reply or not
send_trajectory_no_ack ==
    /\ pc = "handle"
    /\ op = "send_trajectory"
    /\ LET last == Len(args.alpha) + Len(args.beta) + 2
       IN  IF answer # <<>> /\ ~KnownReply THEN Raise("KeyError")
           ELSE IF tx = last THEN logs' = <<>> /\ Return(None)
           ELSE /\ logs' = IF tx = 1 /\ answer = <<>>
                           THEN <<Error("Error with send_trajectory")>> ELSE <<>>
                /\ NextTx(TrajectoryFrame(args, tx + 1))
    /\ Kept
    /\ UNCHANGED <<status, transfered_data, hall_alpha>>

\* a variant of send_trajectory that ends the upload on the first waypoint
\* without reply
send_trajectory_aborts ==
    /\ pc = "handle"
    /\ op = "send_trajectory"
    /\ LET last == Len(args.alpha) + Len(args.beta) + 2
       IN  IF answer = <<>>
           THEN /\ logs' = <<Error("Error with send_trajectory")>>
                /\ Return(None)
           ELSE IF ~KnownReply THEN Raise("KeyError")
           ELSE IF tx = last THEN logs' = <<>> /\ Return(None)
           ELSE logs' = <<>> /\ NextTx(TrajectoryFrame(args, tx + 1))
    /\ Kept
    /\ UNCHANGED <<status, transfered_data, hall_alpha>>

\* send_trajectory after each _get_answer: only SEND_TRAJECTORY_NEW without
\* reply is logged and ends the upload; then the next waypoint is packed.
send_trajectory ==
    /\ pc = "handle"
    /\ op = "send_trajectory"
    /\ LET last == Len(args.alpha) + Len(args.beta) + 2
       IN  IF tx = 1 /\ answer = <<>>
           THEN /\ logs' = <<Error("Error with send_trajectory")>>
                /\ Return(None)
           ELSE IF answer # <<>> /\ ~KnownReply THEN Raise("KeyError")
           ELSE IF tx = last THEN logs' = <<>> /\ Return(None)
           ELSE logs' = <<>> /\ NextTx(TrajectoryFrame(args, tx + 1))
    /\ Kept
    /\ UNCHANGED <<status, transfered_data, hall_alpha>>

\* a variant of firmware_upgrade that streams the file whether the header
\* had a reply or not
firmware_upgrade_no_ack ==
    /\ pc = "handle"
    /\ op = "firmware_upgrade"
    /\ LET data == FileRead(args.filesize, transfered_data)
       IN  IF tx = 1 /\ answer # <<>> /\ ~KnownReply
           THEN Raise("KeyError") /\ transfered_data' = transfered_data
           ELSE IF tx > 1 /\ transfered_data = args.filesize
           THEN /\ logs' = <<Info("firmware upgrade done")>>
                /\ Return(None)
                /\ transfered_data' = transfered_data
           ELSE /\ logs' = <<>>
                /\ NextTx(Packed("FIRMWARE_DATA", [ok |-> TRUE, bytes |-> data]))
                /\ transfered_data' = transfered_data + Len(data)
    /\ Kept
    /\ UNCHANGED <<status, hall_alpha>>

\* a variant of firmware_upgrade that gives up on a chunk without reply
firmware_upgrade_gives_up ==
    /\ pc = "handle"
    /\ op = "firmware_upgrade"
    /\ LET data == FileRead(args.filesize, transfered_data)
       IN  IF answer = <<>>
           THEN /\ logs' = <<Error("Error with firmware upgrade command")>>
                /\ Return(None)
                /\ transfered_data' = transfered_data
           ELSE IF tx = 1 /\ ~KnownReply
           THEN Raise("KeyError") /\ transfered_data' = transfered_data
           ELSE IF tx > 1 /\ transfered_data = args.filesize
           THEN /\ logs' = <<Info("firmware upgrade done")>>
                /\ Return(None)
                /\ transfered_data' = transfered_data
           ELSE /\ logs' = <<>>
                /\ NextTx(Packed("FIRMWARE_DATA", [ok |-> TRUE, bytes |-> data]))
                /\ transfered_data' = transfered_data + Len(data)
    /\ Kept
    /\ UNCHANGED <<status, hall_alpha>>

\* firmware_upgrade after each _get_answer: the header without reply is
\* logged and ends the upgrade; after the header's reply and after every
\* chunk (whatever its answer) the file is read on until the count of the
\* bytes read equals the size announced.
firmware_upgrade ==
    /\ pc = "handle"
    /\ op = "firmware_upgrade"
    /\ LET data == FileRead(args.filesize, transfered_data)
       IN  IF tx = 1 /\ answer = <<>>
           THEN /\ logs' = <<Error("Error with firmware upgrade command")>>
                /\ Return(None)
                /\ transfered_data' = transfered_data
           ELSE IF tx = 1 /\ ~KnownReply
           THEN Raise("KeyError") /\ transfered_data' = transfered_data
           ELSE IF tx > 1 /\ transfered_data = args.filesize
           THEN /\ logs' = <<Info("firmware upgrade done")>>
                /\ Return(None)
                /\ transfered_data' = transfered_data
           ELSE /\ logs' = <<>>
                /\ NextTx(Packed("FIRMWARE_DATA", [ok |-> TRUE, bytes |-> data]))
                /\ transfered_data' = transfered_data + Len(data)
    /\ Kept
    /\ UNCHANGED <<status, hall_alpha>>

\* the body of get_status after _get_answer: exc is the exception it raises
\* ("" when none), st the status register after it, log what it logs
GetStatus ==
    IF answer = <<>>
    THEN [exc |-> "", st |-> status, log |-> <<Error("Error with command get_status")>>]
    ELSE IF ~KnownReply THEN [exc |-> "KeyError", st |-> status, log |-> <<>>]
    ELSE IF Len(answer[1].data) # calcsize("<Q")
    THEN [exc |-> "struct.error", st |-> status, log |-> <<>>]
    ELSE [exc |-> "", st |-> StatusBits(answer[1].data), log |-> <<>>]

get_status ==
    /\ pc = "handle"
    /\ op = "get_status"
    /\ LET g == GetStatus
       IN  IF g.exc # "" THEN Raise(g.exc) /\ status' = status
           ELSE logs' = g.log /\ status' = g.st /\ Return(None)
    /\ Kept
    /\ UNCHANGED <<transfered_data, hall_alpha>>

\* a variant of wait_move that returns after its first get_status
wait_move_once ==
    /\ pc = "handle"
    /\ op = "wait_move"
    /\ LET g == GetStatus
       IN  IF g.exc # "" THEN Raise(g.exc) /\ status' = status
           ELSE logs' = g.log /\ status' = g.st /\ Return(None)
    /\ Kept
    /\ UNCHANGED <<transfered_data, hall_alpha>>

\* wait_move after each get_status: it asks again as long as the status
\* register does not have displacement_completed set
wait_move ==
    /\ pc = "handle"
    /\ op = "wait_move"
    /\ LET g == GetStatus
       IN  IF g.exc # "" THEN Raise(g.exc) /\ status' = status
           ELSE /\ logs' = g.log
                /\ status' = g.st
                /\ IF displacement_completed(g.st) # 1
                   THEN pc' = "send" /\ UNCHANGED <<cur, tx, ret, exc>>
                   ELSE Return(None)
    /\ Kept
    /\ UNCHANGED <<transfered_data, hall_alpha>>

\* The method's frame is left: its caller has the result or the exception,
\* and the session is idle again.  Only the session's fields outlive a call.
Leave ==
    /\ pc \in {"done", "raised"}
    /\ pc' = "idle"
    /\ op' = "none"
    /\ args' = DefaultArgs
    /\ tx' = 0
    /\ cur' = <<>>
    /\ transfered_data' = 0
    /\ hall_alpha' = <<>>
    /\ sent' = <<>>
    /\ sendOk' = TRUE
    /\ rxlog' = <<>>
    /\ answer' = <<>>
    /\ logs' = <<>>
    /\ ret' = None
    /\ exc' = ""
    /\ UNCHANGED <<canid, status, bootloader_status, channel>>

Next ==
    \/ Call
    \/ Leave
    \/ OtherSession
    \/ send_command
    \/ pack_error
    \/ get_answer
    \/ simple_method
    \/ paired_method
    \/ get_hall_calibration
    \/ send_trajectory
    \/ firmware_upgrade
    \/ get_status
    \/ wait_move

Spec == Init /\ [][Next]_vars

\* =================================================================== claims
\* what the claims speak of
Nothing(r) == r.kind = "none"
\* the current transaction had no reply within the receive budget
NoReply ==
    /\ Len(rxlog) = 5
    /\ \A i \in 1..Len(rxlog) : Nothing(rxlog[i])
\* the names of the commands of the frames in a sequence
Cmds(frames) == [i \in 1..Len(frames) |-> frames[i].cmd]
HasError(entries) == \E i \in 1..Len(entries) : entries[i].level = "error"
Ceil8(n) == (n + 7) \div 8

\* ----------------------------------------------------------------------- C1
\* C1, as the specification states it: in one transaction _get_answer calls
\* the channel's receive at most 5 times, returns the first frame received
\* and receives no more after it, and returns None exactly when all 5
\* receive calls returned nothing.
C1_Original ==
    /\ Len(rxlog) <= 5
    /\ \A i \in 1..(Len(rxlog) - 1) : Nothing(rxlog[i])
    /\ pc = "handle" =>
        /\ answer # <<>> => rxlog[Len(rxlog)].frame = answer
        /\ answer = <<>> <=> NoReply

\* C1, amended: in one transaction _get_answer calls the channel's receive
\* at most 5 times, returns the first frame received and receives no more
\* after it, and returns None exactly when all 5 receive calls returned
\* nothing or a receive call raised (after which it receives no more).
C1_GetAnswer ==
    /\ Len(rxlog) <= 5
    /\ \A i \in 1..(Len(rxlog) - 1) : Nothing(rxlog[i])
    /\ pc = "handle" =>
        /\ answer # <<>> => rxlog[Len(rxlog)].frame = answer
        /\ answer = <<>> <=> (NoReply \/ rxlog[Len(rxlog)].kind = "raise")

\* the budget is used up: five receive calls gave nothing, None is returned
C1_Witness == pc = "handle" /\ NoReply /\ answer = <<>>

\* ----------------------------------------------------------------------- C2
\* the frames C2 expects of send_trajectory(alpha, beta)
DataFrames(points) ==
    [i \in 1..Len(points) |-> Frame("SEND_TRAJECTORY_DATA", Waypoint(points[i]).bytes)]
ExpectedTrajectory(a) ==
    <<Frame("SEND_TRAJECTORY_NEW",
            pack(<<"i", "i">>, <<Wide(Len(a.alpha)), Wide(Len(a.beta))>>).bytes)>>
        \o DataFrames(a.alpha) \o DataFrames(a.beta)
        \o <<Frame("SEND_TRAJECTORY_DATA_END", <<>>)>>

\* C2: when send_trajectory with n alpha and m beta waypoints has ended and
\* its SEND_TRAJECTORY_NEW was acknowledged, the frames it sent are, in
\* order, SEND_TRAJECTORY_NEW, the n alpha waypoints, the m beta waypoints
\* and one SEND_TRAJECTORY_DATA_END.
C2_Original ==
    (op = "send_trajectory" /\ pc \in {"done", "raised"} /\ tx >= 2)
        => sent = ExpectedTrajectory(args)

\* the upload has ended in struct.error on its first waypoint, whose
\* timestamp is 2^31 or more: SEND_TRAJECTORY_NEW is the one frame sent
C2_Failure ==
    /\ op = "send_trajectory" /\ pc = "raised" /\ exc = "struct.error" /\ tx = 2
    /\ args.alpha = <<<<45, LongTime>>>> /\ args.beta = <<>>
    /\ Cmds(sent) = <<"SEND_TRAJECTORY_NEW">>

\* beside C2: the frames sent are at all times a prefix of the sequence C2
\* expects, and an upload that returns has sent all of it
C2_InOrder ==
    (op = "send_trajectory" /\ Len(sent) >= 1) =>
        /\ Len(sent) <= Len(ExpectedTrajectory(args))
        /\ sent = SubSeq(ExpectedTrajectory(args), 1, Len(sent))
        /\ (pc = "done" /\ tx >= 2) => sent = ExpectedTrajectory(args)

\* ----------------------------------------------------------------------- C3
\* C3: in firmware_upgrade of a file of n >= 1 bytes whose header was
\* acknowledged, at most ceil(n/8) FIRMWARE_DATA frames are sent, chunk k
\* carrying bytes 8(k-1)+1 .. min(8k, n) of the file (8 bytes, but for the
\* last, which carries the rest); the upgrade never raises, and it has
\* ended exactly when ceil(n/8) chunks, n bytes in all, were sent and the
\* last chunk's transaction is over.
C3_Chunks ==
    (op = "firmware_upgrade" /\ args.filesize >= 1 /\ tx >= 2) =>
        LET n == args.filesize
            chunk(k) == sent[k + 1]
            nchunks == Len(sent) - 1
            first(k) == 8 * (k - 1) + 1
            last(k) == IF 8 * k < n THEN 8 * k ELSE n
        IN  /\ sent[1].cmd = "SEND_NEW_FIRMWARE"
            /\ nchunks <= Ceil8(n)
            /\ \A k \in 1..nchunks :
                /\ chunk(k).cmd = "FIRMWARE_DATA"
                /\ chunk(k).data = SubSeq(FileBytes(n), first(k), last(k))
                /\ Len(chunk(k).data) = IF k < Ceil8(n) THEN 8 ELSE n - 8 * (Ceil8(n) - 1)
            /\ pc # "raised"
            /\ pc = "done" => nchunks = Ceil8(n) /\ transfered_data = n
            /\ pc = "handle" => (transfered_data = n <=> nchunks = Ceil8(n))

\* a file of 20 bytes went out in chunks of 8, 8 and 4 bytes
C3_Witness ==
    /\ op = "firmware_upgrade" /\ pc = "done" /\ args.filesize = 20
    /\ Len(sent) = 4
    /\ <<Len(sent[2].data), Len(sent[3].data), Len(sent[4].data)>> = <<8, 8, 4>>

\* ----------------------------------------------------------------------- C4
\* C4: when the SEND_NEW_FIRMWARE transaction of firmware_upgrade got no
\* reply, the upgrade ends at once: the header is the one frame sent, no
\* FIRMWARE_DATA frame is sent, and at no time during the header's
\* transaction has a FIRMWARE_DATA frame been sent.
C4_HeaderNoReply ==
    /\ [](op = "firmware_upgrade" /\ tx = 1 =>
            \A i \in 1..Len(sent) : sent[i].cmd = "SEND_NEW_FIRMWARE")
    /\ [][(op = "firmware_upgrade" /\ pc = "handle" /\ tx = 1 /\ answer = <<>>)
            => /\ pc' = "done"
               /\ tx' = 1
               /\ sent' = sent
               /\ Cmds(sent) = <<"SEND_NEW_FIRMWARE">>]_vars

\* the upgrade is over after a header that had no reply in five receives
C4_Witness ==
    /\ op = "firmware_upgrade" /\ pc = "done" /\ tx = 1
    /\ NoReply /\ answer = <<>>
    /\ Cmds(sent) = <<"SEND_NEW_FIRMWARE">>

\* ----------------------------------------------------------------------- C5
\* C5: a paired axis method sends its alpha command first and its beta
\* command second, and nothing else; when the alpha command had no reply
\* the method ends at once, with the error logged and None returned, the
\* beta command never sent.
C5_AlphaBeforeBeta ==
    /\ [](op \in PairedMethods =>
            /\ Len(sent) <= 2
            /\ Len(sent) >= 1 => sent[1].cmd = Pair(op).alpha
            /\ Len(sent) = 2 => sent[2].cmd = Pair(op).beta /\ tx = 2
            /\ Pair(op).alpha # Pair(op).beta)
    /\ [][(op \in PairedMethods /\ pc = "handle" /\ tx = 1 /\ answer = <<>>)
            => /\ pc' = "done"
               /\ ret' = None
               /\ HasError(logs')
               /\ sent' = sent
               /\ Cmds(sent) = <<Pair(op).alpha>>]_vars

\* a paired method is over after an alpha command without reply
C5_Witness ==
    /\ op \in PairedMethods /\ pc = "done" /\ tx = 1
    /\ NoReply /\ answer = <<>>
    /\ Len(sent) = 1

\* ----------------------------------------------------------------------- C6
\* C6: wait_move sends GET_STATUS frames and no other, and whenever
\* wait_move has returned, the session's status register has
\* displacement_completed (bit 8) set.
C6_WaitMove ==
    op = "wait_move" =>
        /\ \A i \in 1..Len(sent) : sent[i].cmd = "GET_STATUS"
        /\ pc = "send" => cur[1].frame.cmd = "GET_STATUS"
        /\ pc = "done" => 8 \in status

\* wait_move has returned after more than one status query
C6_Witness ==
    /\ op = "wait_move" /\ pc = "done" /\ Len(sent) >= 2
    /\ 8 \in status

\* ----------------------------------------------------------------------- C7
\* a status reply that reports displacement_completed set
FlagReply ==
    /\ answer # <<>>
    /\ Len(answer[1].data) = 8
    /\ 8 \in StatusBits(answer[1].data)

\* C7: as long as displacement_completed is clear and the status
\* transaction of wait_move did not receive a reply with
\* displacement_completed set, wait_move goes on to its next GET_STATUS
\* transaction: it neither returns nor ends in any other way.
C7_Original ==
    [][(op = "wait_move" /\ pc = "handle" /\ 8 \notin status /\ ~FlagReply)
        => /\ op' = "wait_move"
           /\ pc' = "send"
           /\ cur'[1].frame.cmd = "GET_STATUS"]_vars

\* wait_move has ended in KeyError on a status reply with no flag set and
\* a response code that is in no table, after at least two queries
C7_Failure ==
    /\ op = "wait_move" /\ pc = "raised" /\ exc = "KeyError"
    /\ 8 \notin status
    /\ Len(sent) >= 2
    /\ Len(answer[1].data) = 8 /\ StatusBits(answer[1].data) = {}

\* beside C7: a status transaction of wait_move that ends without reply, or
\* with a reply get_status decodes and that has the flag clear, is followed
\* by the next GET_STATUS query
C7_Unbounded ==
    [][(op = "wait_move" /\ pc = "handle" /\ 8 \notin status /\ ~FlagReply
            /\ GetStatus.exc = "")
        => /\ op' = "wait_move"
           /\ pc' = "send"
           /\ cur'[1].frame.cmd = "GET_STATUS"]_vars

\* ----------------------------------------------------------------------- C8
\* the methods that end with the transaction that had no reply
EndsOnNoReply ==
    \/ op \in SimpleMethods \cup PairedMethods \cup {"get_hall_calibration", "get_status"}
    \/ op \in {"send_trajectory", "firmware_upgrade"} /\ tx = 1

C9_Original == [][(pc = "handle" /\ NoReply) => HasError(logs')]_vars

\* start_trajectory has returned after five receives that gave nothing and
\* a send that was taken, and nothing was logged
C9_Failure ==
    /\ op = "start_trajectory" /\ pc = "done" /\ sendOk
    /\ NoReply /\ answer = <<>>
    /\ logs = <<>>

\* beside C9: the transactions whose lack of a reply is not logged
Unlogged ==
    \/ op \in {"start_trajectory", "stop_trajectory", "erase_flash"}
    \/ op \in {"send_trajectory", "firmware_upgrade"} /\ tx > 1
C9_Others == [][(pc = "handle" /\ NoReply /\ ~Unlogged) => HasError(logs')]_vars

\* ---------------------------------------------------------------------- C10
\* C10: when bus.send raised for a transaction's frame, no receive is made
\* for that transaction and the method returns no decoded value.
C10_Original ==
    ~sendOk => /\ rxlog = <<>>
               /\ ~(pc = "done" /\ ret.some)

\* get_id has returned the fields of a frame received after bus.send raised
C10_Failure ==
    /\ op = "get_id" /\ pc = "done" /\ ~sendOk
    /\ ret.some /\ Len(rxlog) >= 1

\* ---------------------------------------------------------------------- C11
\* the reply's response code is in no table
UnknownReply == answer # <<>> /\ ~KnownReply

\* C11: when the reply's low 10 identifier bits are a code that is not in
\* the response table, the method's handling of it raises nothing, logs an
\* error, and returns None if the method ends there.
C11_Original ==
    [][(pc = "handle" /\ UnknownReply)
        => /\ pc' # "raised"
           /\ HasError(logs')
           /\ pc' = "done" => ret' = None]_vars

\* get_id has ended in KeyError on a reply whose response code is unknown
C11_Failure ==
    /\ op = "get_id" /\ pc = "raised" /\ exc = "KeyError"
    /\ UnknownReply /\ sendOk

\* beside C11: the methods that never look the response code up decode the
\* reply as if it were an acknowledgement
C11_Undetected ==
    /\ op = "read_flash" /\ pc = "done" /\ ret.some
    /\ UnknownReply

\* ---------------------------------------------------------------------- C12
\* how the receive phase of the last frame sent has ended
Replied == Len(rxlog) >= 1 /\ rxlog[Len(rxlog)].kind = "frame"
ReceiveRaised == Len(rxlog) >= 1 /\ rxlog[Len(rxlog)].kind = "raise"
\* a frame is handed to the channel in this step
Sends == pc = "send" /\ pc' = "recv"

\* C12, as the specification states it: a command frame is sent only when
\* the method has sent none yet or the receive phase of the frame sent
\* before it is over, by a reply or by 5 receive calls that gave nothing;
\* and the same holds of the last frame of a method when the method ends,
\* so that the next method's frame comes after it.
C12_Original ==
    /\ [][Sends => (sent = <<>> \/ Replied \/ NoReply)]_vars
    /\ []((pc \in {"done", "raised"} /\ sent # <<>>) => (Replied \/ NoReply))

\* C12, amended: a command frame is sent only when the method has sent none
\* yet or the receive phase of the frame sent before it is over, by a
\* reply, by 5 receive calls that gave nothing, or by a receive call that
\* raised; the same holds of the last frame of a method when the method
\* ends; and no frame is sent but by _send_command, one per transaction.
C12_OneOutstanding ==
    /\ [][Sends => (sent = <<>> \/ Replied \/ NoReply \/ ReceiveRaised)]_vars
    /\ []((pc \in {"done", "raised"} /\ sent # <<>>)
            => (Replied \/ NoReply \/ ReceiveRaised))
    /\ [][(sent' # sent /\ sent' # <<>>) => Sends]_vars
    /\ [](pc = "recv" => (Len(rxlog) < 5 /\ ~Replied /\ ~ReceiveRaised))

\* an upload is about to send its third frame after a second frame whose
\* five receive calls gave nothing
C12_Witness ==
    /\ op = "send_trajectory" /\ pc = "send" /\ tx = 3
    /\ Len(sent) = 2 /\ NoReply

\* ---------------------------------------------------------------------- C13
\* what the frame returned by _get_answer is the reply to
AnswerOf == rxlog[Len(rxlog)].of

\* C13: transactions are serialized (one is over before the next is begun,
\* in this session and between the sessions of the channel), and every
\* frame _get_answer returns to a method is the reply to that transaction's
\* own command frame.
C13_Original ==
    (pc \in {"handle", "done", "raised"} /\ answer # <<>>) => AnswerOf = "this"

\* get_id has returned the id unpacked from the late reply to an earlier
\* transaction of its session, whose receive phase was over
C13_Failure ==
    /\ op = "get_id" /\ pc = "done" /\ ret.some /\ sendOk
    /\ AnswerOf = "earlier"

\* get_id has returned the id unpacked from a reply to the other session
C13_Foreign ==
    /\ op = "get_id" /\ pc = "done" /\ ret.some /\ sendOk
    /\ AnswerOf = "other"
    /\ answer[1].arbitration_id \div 2^CAN_ID_BIT_SHIFT # canid

\* ======================================================= the pure functions
\* The functions of the driver that touch no channel are applied one at a
\* time to arguments drawn from bounded sets: op is the function applied,
\* args its arguments, ret its value.

\* the device addresses of a session: some of the addresses below 2^11
Addresses == {0, 1, 5, 2^10, 2^11 - 1}

\* the opcodes COMMANDS of commands.py may hold: the 10-bit integers
Opcodes == 0..(2^COMMAND_BIT_SHIFT - 1)

\* a variant of the identifier with the command shifted as the address is
build_frame_id_shifted(id, opcode) ==
    id * 2^CAN_ID_BIT_SHIFT + opcode * 2^CAN_ID_BIT_SHIFT

\* (self._canid << 18) + (COMMANDS[command] << 10), on the command's opcode
build_frame_id(id, opcode) ==
    id * 2^CAN_ID_BIT_SHIFT + opcode * 2^COMMAND_BIT_SHIFT

CodecInit ==
    /\ canid \in Addresses
    /\ status = {}
    /\ bootloader_status = {}
    /\ op = "none"
    /\ args = DefaultArgs
    /\ pc = "idle"
    /\ tx = 0
    /\ cur = <<>>
    /\ transfered_data = 0
    /\ hall_alpha = <<>>
    /\ sent = <<>>
    /\ sendOk = TRUE
    /\ rxlog = <<>>
    /\ answer = <<>>
    /\ logs = <<>>
    /\ ret = None
    /\ exc = ""
    /\ channel = {}

\* function f is applied to the arguments a and gives v
Apply(f, a, v) ==
    /\ pc = "idle"
    /\ op' = f
    /\ args' = a
    /\ ret' = Some(v)
    /\ pc' = "done"
    /\ UNCHANGED <<canid, tx, cur, transfered_data, hall_alpha, sent, sendOk,
                   rxlog, answer, logs, exc, channel>>

\* _build_frame_id for a command of the table
BuildFrameId ==
    /\ pc = "idle"
    /\ \E o \in Opcodes :
        Apply("_build_frame_id", [DefaultArgs EXCEPT !.x = o], build_frame_id(canid, o))
    /\ UNCHANGED <<status, bootloader_status>>

\* a variant of the masking that reads the opcode field, bits [17:10]
code_of_opcode(busid) == (busid \div 2^COMMAND_BIT_SHIFT) % 2^8

\* busid & (2**10 - 1), the index _get_response_code looks up
code_of(busid) == busid % 2^COMMAND_BIT_SHIFT

\* a response table that maps code N to the acknowledgement of command N,
\* the acknowledgement of command N written N
MockAck == [n \in Opcodes |-> n]

\* _get_response_code on the identifier _build_frame_id built for a command,
\* echoed back unchanged: what the table above gives for it, and the name
\* RESPONSE_CODE_NUMBER gives
ParseEcho ==
    /\ pc = "idle"
    /\ \E o \in Opcodes :
        LET busid == build_frame_id(canid, o)
        IN  Apply("_get_response_code", [DefaultArgs EXCEPT !.x = o],
                  [ack |-> MockAck[code_of(busid)], name |-> get_response_code(busid).name])
    /\ UNCHANGED <<status, bootloader_status>>

\* the angles converted: num / den degrees, from -MaxAngle to MaxAngle, which
\* is past both ends of the range whose counts fit a signed 32-bit field
MaxAngle == 721
Denominators == {1, 7, 16}

\* a variant of the conversion that rounds the turns before it scales them
angle_to_position_turns(num, den) ==
    LET turns == (2 * num + 360 * den) \div (2 * 360 * den)
    IN  Norm(turns * (POSITION_RESOLUTION \div Base), 0)

\* round(angle / 360 * 2^30) on the angle num / den degrees; Python's
\* round() takes a tie to the even neighbour
angle_to_position_of(num, den) ==
    LET h  == num * (POSITION_RESOLUTION \div Base)
        qh == h \div (360 * den)
        r1 == h % (360 * den)
        ql == (r1 * Base) \div (360 * den)
        r2 == (r1 * Base) % (360 * den)
        up == IF 2 * r2 > 360 * den \/ (2 * r2 = 360 * den /\ ql % 2 = 1) THEN 1 ELSE 0
    IN  Norm(qh, ql + up)

\* _position_to_angle(_angle_to_position(angle))
RoundTrip ==
    /\ pc = "idle"
    /\ \E den \in Denominators : \E num \in (-(MaxAngle * den))..(MaxAngle * den) :
        LET position == angle_to_position_of(num, den)
        IN  Apply("_position_to_angle", [DefaultArgs EXCEPT !.x = num, !.y = den],
                  [position |-> position, angle |-> position_to_angle(position)])
    /\ UNCHANGED <<status, bootloader_status>>

CodecNext ==
    \/ BuildFrameId
    \/ ParseEcho
    \/ RoundTrip
    \/ Leave

CodecSpec == CodecInit /\ [][CodecNext]_vars

\* ---------------------------------------------------------------------- C14
\* bits [hi:lo] of an identifier
Bits(id, hi, lo) == (id \div 2^lo) % 2^(hi - lo + 1)
BuiltId == op = "_build_frame_id" /\ pc = "done"

Echoed == op = "_get_response_code" /\ pc = "done"

\* C15, as the specification states it: with a response table that maps
\* code N to the acknowledgement of command N, _get_response_code applied
\* to the identifier built for a command gives that command's
\* acknowledgement.
C15_Original == Echoed => ret.val.ack = args.x

\* C15, amended: _get_response_code applied to the identifier built for a
\* command reads the low 10 bits, which are 0 whatever the command, and
\* gives the symbol of response code 0 for every command; with the table
\* that maps code N to the acknowledgement of command N this is the
\* command's own acknowledgement for the command of opcode 0 alone.
C15_EchoIsCodeZero ==
    Echoed =>
        /\ ret.val.ack = MockAck[0]
        /\ ret.val.name = RESPONSE_CODE_NUMBER[0]
        /\ ret.val.ack = args.x <=> args.x = 0

\* the identifier of opcode 5 has been parsed into the symbol of code 0
C15_Witness == Echoed /\ args.x = 5 /\ ret.val.ack = 0

\* ====================================================== the status registers
\* src/status.py: a register is a ctypes Union of an unsigned integer asInt
\* and a LittleEndianStructure of 1-bit fields over the same storage.  The
\* storage is kept as the set of the indices of its 1 bits; an integer is
\* written and read as its 16-bit limbs, the least significant first.

\* the fields of BootloaderFlagBits, in the order declared
BootloaderFlagBits ==
    <<"init", "timeout", "reserve2", "reserve3", "reserve4", "reserve5",
      "reserve6", "reserve7", "config_changed", "bsettings_changed",
      "reserve10", "reserve11", "reserve12", "reserve13", "reserve14",
      "reserve15", "receiving_firmware", "reserve17", "reserve18",
      "reserve19", "reserve20", "reserve21", "reserve22", "reserve23",
      "firmware_received", "firmware_ok", "firmware_bad", "reserve27",
      "reserve28", "reserve29", "reserve30", "reserve31">>

\* the fields of PositionerFlagBits, in the order declared
PositionerFlagBits ==
    <<"init", "config_changed", "bsettings_changed", "data_streaming",
      "receiving_trajectory", "trajectory_alpha_received",
      "trajectory_beta_received", "low_power_after_move",
      "displacement_completed", "displacement_completed_alpha",
      "displacement_completed_beta", "collision_alpha", "collision_beta",
      "closed_loop_alpha", "closed_loop_beta", "precise_positioning_alpha",
      "precise_positioning_beta", "collision_detect_alpha_disable",
      "collision_detect_beta_disable", "motor_calibration",
      "motor_alpha_calibrated", "motor_beta_calibrated", "datum_calibration",
      "datum_alpha_calibrated", "datum_beta_calibrated",
      "datum_initialization", "datum_alpha_initialized",
      "datum_beta_initialized", "hall_alpha_disable", "hall_beta_disable",
      "cogging_calibration", "cogging_alpha_calibrated",
      "cogging_beta_calibrated", "estimated_position", "position_restored",
      "switch_off_after_move", "calibration_saved",
      "precise_move_in_open_loop_alpha", "precise_move_in_open_loop_beta",
      "switch_off_hall_after_move", "reserve41", "reserve42", "reserve43",
      "reserve44", "reserve45", "reserve46", "reserve47", "reserve48",
      "reserve49", "reserve50", "reserve51", "reserve52", "reserve53",
      "reserve54", "reserve55", "reserve56", "reserve57", "reserve58",
      "reserve59", "reserve60", "reserve61", "reserve62", "reserve63",
      "reserve64">>

FieldNames(fields) == {fields[i] : i \in 1..Len(fields)}

\* a variant of the layout that allots the fields from the most significant
\* bit down
BitOf_msb(fields, name) == Len(fields) - (CHOOSE i \in 1..Len(fields) : fields[i] = name)

\* the bit a field lies at: 1-bit fields of a little-endian structure are
\* allotted from bit 0 up, in the order declared
BitOf(fields, name) == (CHOOSE i \in 1..Len(fields) : fields[i] = name) - 1

\* reading one named flag of a register
Flag(reg, fields, name) == IF BitOf(fields, name) \in reg THEN 1 ELSE 0

\* a variant of the flag write that stores the flag's unit whole
SetFlag_whole(reg, fields, name, v) ==
    IF v = 1 THEN {BitOf(fields, name)} ELSE {}

\* writing one named flag of a register
SetFlag(reg, fields, name, v) ==
    IF v = 1 THEN reg \cup {BitOf(fields, name)} ELSE reg \ {BitOf(fields, name)}

\* writing asInt: the bits of the integer become the storage
FromInt(limbs) ==
    {k \in 0..(16 * Len(limbs) - 1) : (limbs[(k \div 16) + 1] \div 2^(k % 16)) % 2 = 1}

\* reading asInt from a register of n limbs
RECURSIVE LimbOf(_, _, _)
LimbOf(reg, base, k) ==
    IF k = 16 THEN 0
    ELSE (IF base + k \in reg THEN 2^k ELSE 0) + LimbOf(reg, base, k + 1)
asInt(reg, n) == [i \in 1..n |-> LimbOf(reg, 16 * (i - 1), 0)]

\* the integers written to asInt: none of the bits, bit 8 alone, all of the
\* bits, and a value with bits in the first and in the last limb
PositionerRaw ==
    {<<0, 0, 0, 0>>, <<256, 0, 0, 0>>, <<65535, 65535, 65535, 65535>>, <<1, 0, 0, 32768>>}
BootloaderRaw == {<<0, 0>>, <<256, 0>>, <<65535, 65535>>, <<1, 1024>>}
\* the flags written by name
PositionerWritten == {"displacement_completed", "switch_off_hall_after_move", "reserve64"}
BootloaderWritten == {"init", "config_changed", "reserve31"}

\* what a write to a register leaves alone
RegisterKept ==
    UNCHANGED <<canid, tx, cur, transfered_data, hall_alpha, sent, sendOk, rxlog,
                answer, logs, exc, channel, args>>

\* status.asInt = raw (as get_status does) and bootloader_status.asInt = raw
WriteAsInt ==
    /\ pc = "idle"
    /\ pc' = "done"
    /\ \/ \E raw \in PositionerRaw :
            /\ op' = "PositionerStatus.asInt"
            /\ ret' = Some(raw)
            /\ status' = FromInt(raw)
            /\ bootloader_status' = bootloader_status
       \/ \E raw \in BootloaderRaw :
            /\ op' = "BootloaderStatus.asInt"
            /\ ret' = Some(raw)
            /\ bootloader_status' = FromInt(raw)
            /\ status' = status
    /\ RegisterKept

\* status.<flag> = v and bootloader_status.<flag> = v
WriteFlag ==
    /\ pc = "idle"
    /\ pc' = "done"
    /\ \E v \in {0, 1} :
        \/ \E name \in PositionerWritten :
            /\ op' = "PositionerStatus.bit"
            /\ ret' = Some(<<name, v>>)
            /\ status' = SetFlag(status, PositionerFlagBits, name, v)
            /\ bootloader_status' = bootloader_status
        \/ \E name \in BootloaderWritten :
            /\ op' = "BootloaderStatus.bit"
            /\ ret' = Some(<<name, v>>)
            /\ bootloader_status' = SetFlag(bootloader_status, BootloaderFlagBits, name, v)
            /\ status' = status
    /\ RegisterKept

RegisterNext ==
    \/ WriteAsInt
    \/ WriteFlag
    \/ Leave

RegisterSpec == Init /\ [][RegisterNext]_vars

\* ---------------------------------------------------------------------- C16
\* the named flags that read 1
FlagsSet(reg, fields) == {name \in FieldNames(fields) : Flag(reg, fields, name) = 1}

\* C16: when the raw value with bit 8 alone set is written to the
\* bootloader status, config_changed reads 1 and every other flag 0; when it
\* is written to the positioner status (from the integer as from the 8
\* bytes of a reply, the least significant first), displacement_completed
\* reads 1 and every other flag 0.
C16_BitEight ==
    /\ (op = "BootloaderStatus.asInt" /\ pc = "done" /\ ret.val = <<256, 0>>)
        => FlagsSet(bootloader_status, BootloaderFlagBits) = {"config_changed"}
    /\ (op = "PositionerStatus.asInt" /\ pc = "done" /\ ret.val = <<256, 0, 0, 0>>)
        => /\ FlagsSet(status, PositionerFlagBits) = {"displacement_completed"}
           /\ status = StatusBits(<<0, 1, 0, 0, 0, 0, 0, 0>>)
           /\ displacement_completed(status) = 1

\* bit 8 alone has been written to the positioner status over another value
C16_Witness ==
    /\ op = "PositionerStatus.asInt" /\ pc = "done" /\ ret.val = <<256, 0, 0, 0>>
    /\ Flag(status, PositionerFlagBits, "displacement_completed") = 1
    /\ Flag(bootloader_status, BootloaderFlagBits, "config_changed") = 1


\* ---------------------------------------------------------------------- C17
\* bit k of an integer held as 16-bit limbs, the least significant first
BitAt(limbs, k) == (limbs[(k \div 16) + 1] \div 2^(k % 16)) % 2

\* the k-th declared flag reads as bit k of asInt (k counted from 0)
OneValue(reg, fields) ==
    LET int == asInt(reg, Len(fields) \div 16)
    IN  \A k \in 1..Len(fields) : Flag(reg, fields, fields[k]) = BitAt(int, k - 1)

\* the bits in which two integers differ, and the flags that read differently
BitsChanged(old, new, n) ==
    LET before == asInt(old, n)
        after == asInt(new, n)
    IN  {k \in 0..(16 * n - 1) : BitAt(before, k) # BitAt(after, k)}
FlagsChanged(old, new, fields) ==
    {name \in FieldNames(fields) : Flag(old, fields, name) # Flag(new, fields, name)}

\* a write of asInt: asInt reads back the integer written and the flags that
\* change are those of the bits in which it differs from the one before
AsIntWritten(old, new, fields, raw) ==
    LET before == asInt(old, Len(fields) \div 16)
    IN  /\ asInt(new, Len(fields) \div 16) = raw
        /\ FlagsChanged(old, new, fields)
            = {fields[k] : k \in {j \in 1..Len(fields) : BitAt(before, j - 1) # BitAt(raw, j - 1)}}

\* a write of one flag: the flag reads back the value written and asInt
\* differs from the one before in that flag's bit at most
FlagWritten(old, new, fields, name, v) ==
    /\ Flag(new, fields, name) = v
    /\ BitsChanged(old, new, Len(fields) \div 16)
        = IF Flag(old, fields, name) = v THEN {} ELSE {BitOf(fields, name)}
    /\ FlagsChanged(old, new, fields) = IF Flag(old, fields, name) = v THEN {} ELSE {name}

RegisterWrite ==
    /\ op' = "PositionerStatus.asInt" /\ pc' = "done" /\ pc = "idle"
        => /\ AsIntWritten(status, status', PositionerFlagBits, ret'.val)
           /\ bootloader_status' = bootloader_status
    /\ op' = "BootloaderStatus.asInt" /\ pc' = "done" /\ pc = "idle"
        => /\ AsIntWritten(bootloader_status, bootloader_status', BootloaderFlagBits, ret'.val)
           /\ status' = status
    /\ op' = "PositionerStatus.bit" /\ pc' = "done" /\ pc = "idle"
        => /\ FlagWritten(status, status', PositionerFlagBits, ret'.val[1], ret'.val[2])
           /\ bootloader_status' = bootloader_status
    /\ op' = "BootloaderStatus.bit" /\ pc' = "done" /\ pc = "idle"
        => /\ FlagWritten(bootloader_status, bootloader_status', BootloaderFlagBits,
                          ret'.val[1], ret'.val[2])
           /\ status' = status

\* C17: in every reachable state of a status register (BootloaderStatus
\* over 32 bits, PositionerStatus over 64 bits) the k-th declared flag
\* equals bit k of asInt; a write of asInt changes exactly the flags whose
\* bits changed, and a write of one flag changes exactly that bit of asInt.
C17_OneValue ==
    /\ [](/\ Len(BootloaderFlagBits) = 32 /\ Len(PositionerFlagBits) = 64
          /\ Cardinality(FieldNames(BootloaderFlagBits)) = 32
          /\ Cardinality(FieldNames(PositionerFlagBits)) = 64
          /\ OneValue(bootloader_status, BootloaderFlagBits)
          /\ OneValue(status, PositionerFlagBits))
    /\ [][RegisterWrite]_vars

\* one flag has been cleared in a register that had all of its bits set
\* through asInt, and asInt reads back with that bit alone cleared
C17_Witness ==
    /\ op = "PositionerStatus.bit" /\ pc = "done"
    /\ ret.val = <<"switch_off_hall_after_move", 0>>
    /\ asInt(status, 4)[1] = 65535 /\ asInt(status, 4)[4] = 65535
    /\ Cardinality(status) = 63
    /\ asInt(bootloader_status, 2) = <<1, 1024>>


\* ---------------------------------------------------------------------- C18
\* the 64-bit little-endian value of a payload, as four 16-bit limbs
Word64(data) ==
    [i \in 1..4 |-> (IF 2 * i - 1 <= Len(data) THEN data[2 * i - 1] ELSE 0)
                     + 256 * (IF 2 * i <= Len(data) THEN data[2 * i] ELSE 0)]

\* the step that ends a status transaction of the operations m
StatusStep(m) == op \in m /\ pc = "handle"

\* C18: get_status replaces the positioner status with the 64-bit
\* little-endian value of the reply payload when a reply arrives and leaves
\* it unchanged when none arrives; no other public operation changes the
\* positioner status or the bootloader status.
C18_Original ==
    [][/\ (StatusStep({"get_status"}) /\ answer # <<>>)
            => status' = FromInt(Word64(answer[1].data))
       /\ (StatusStep({"get_status"}) /\ answer = <<>>) => status' = status
       /\ ~StatusStep({"get_status"}) => status' = status
       /\ bootloader_status' = bootloader_status]_vars

\* get_status has ended in KeyError on a reply with an 8-byte payload and a
\* response code that is in no table, and the status is not that payload
C18_Failure ==
    /\ op = "get_status" /\ pc = "raised" /\ exc = "KeyError"
    /\ Len(answer[1].data) = calcsize("<Q")
    /\ status # StatusBits(answer[1].data)

\* beside C18: a status transaction of get_status or of wait_move whose
\* reply is decoded replaces the status with its payload, one without a
\* reply leaves it; every other step leaves both registers as they are
C18_Decoded ==
    [][/\ (StatusStep(StatusMethods) /\ answer # <<>> /\ GetStatus.exc = "")
            => status' = FromInt(Word64(answer[1].data))
       /\ (StatusStep(StatusMethods) /\ answer = <<>>) => status' = status
       /\ ~StatusStep(StatusMethods) => status' = status
       /\ bootloader_status' = bootloader_status]_vars


\* ---------------------------------------------------------------------- C19
\* the command names _send_command is called with, in the order of their
\* first call in positioner.py
CommandNames ==
    <<"GET_STATUS", "GET_ID", "GET_FIRMWARE_VERSION", "GET_ACTUAL_POSITION",
      "SET_ACTUAL_POSITION", "SEND_NEW_FIRMWARE", "FIRMWARE_DATA",
      "GOTO_POSITION_ABSOLUTE", "GOTO_POSITION_RELATIVE", "SET_SPEED", "SET_CURRENT",
      "SET_LOW_POWER_CURRENT", "SWITCH_OFF_HALL_AFTER_MOVE_CMD",
      "SWITCH_ON_HALL_AFTER_MOVE_CMD", "INITIALIZE_DATUMS", "GOTO_DATUM_ALPHA",
      "GOTO_DATUM_BETA", "SEND_TRAJECTORY_NEW", "SEND_TRAJECTORY_DATA",
      "SEND_TRAJECTORY_DATA_END", "START_TRAJECTORY", "STOP_TRAJECTORY", "GET_ADC_ONE",
      "GET_MOTOR_POWER", "GET_HALL_POS", "GET_HALL_OUTPUT", "ERASE_EXT_FLASH",
      "READ_EXT_FLASH", "WRITE_EXT_FLASH", "REQUEST_REBOOT", "GET_ALPHA_HALL_CALIB",
      "GET_BETA_HALL_CALIB", "CALIB_MOTORS", "SET_ALPHA_OPEN_LOOP_NO_COLL_DETECT",
      "SET_BETA_OPEN_LOOP_NO_COLL_DETECT", "SET_ALPHA_CLOSED_LOOP", "SET_BETA_CLOSED_LOOP",
      "SET_ALPHA_CLOSED_LOOP_NO_COLL_DETECT", "SET_BETA_CLOSED_LOOP_NO_COLL_DETECT",
      "SWITCH_OFF_PRECISE_ALPHA", "SWITCH_OFF_PRECISE_BETA", "SWITCH_ON_PRECISE_ALPHA",
      "SWITCH_ON_PRECISE_BETA">>

\* COMMANDS of commands.py: one opcode of the 10-bit range for each command
\* name; the position of the name in the list stands for its opcode
COMMANDS ==
    [c \in {CommandNames[i] : i \in 1..Len(CommandNames)} |->
        CHOOSE i \in 1..Len(CommandNames) : CommandNames[i] = c]

\* a variant of the message whose identifier has the opcode unshifted
Message_unshifted(frame) ==
    [arbitration_id |-> canid * 2^CAN_ID_BIT_SHIFT + COMMANDS[frame.cmd],
     data |-> frame.data,
     is_extended_id |-> TRUE]

\* the can.Message _send_command builds from its command and extra_data
Message(frame) ==
    [arbitration_id |-> build_frame_id(canid, COMMANDS[frame.cmd]),
     data |-> frame.data,
     is_extended_id |-> TRUE]

\* the messages of the frames the method under way has sent
Messages == [i \in 1..Len(sent) |-> Message(sent[i])]

\* C19: every frame sent by a public operation is an extended-identifier
\* frame with a payload of 0 to 8 bytes whose identifier is
\* (address << 18) + (opcode << 10) for the session's address, so that the
\* low 10 bits of the identifier are 0.
C19_Frames ==
    \A i \in 1..Len(sent) :
        LET m == Message(sent[i])
        IN  /\ m.is_extended_id
            /\ Len(m.data) \in 0..8
            /\ \A j \in 1..Len(m.data) : m.data[j] \in 0..255
            /\ sent[i].cmd \in DOMAIN COMMANDS
            /\ COMMANDS[sent[i].cmd] \in Opcodes
            /\ m.arbitration_id = canid * 262144 + COMMANDS[sent[i].cmd] * 1024
            /\ m.arbitration_id % 1024 = 0

\* a whole trajectory has been sent: frames with the longest payload and,
\* last, one with none
C19_Witness ==
    /\ op = "send_trajectory" /\ pc = "done"
    /\ Len(sent) >= 4
    /\ Len(Messages[1].data) = 8
    /\ Messages[Len(sent)].data = <<>>
    /\ Messages[Len(sent)].arbitration_id
        = 5 * 262144 + COMMANDS["SEND_TRAJECTORY_DATA_END"] * 1024


\* ---------------------------------------------------------------------- C20
\* angle * den - num * (angle's denominator), for the ratio angle and the
\* angle num / den: the difference of the two angles in units of
\* 1 / (den * 2^30) degree
Difference(angle, num, den) ==
    Norm(angle.num.hi * den - num * (angle.den \div Base), angle.num.lo * den)

\* the two angles differ by 360 / 2^30 degrees at most
Within(angle, num, den) ==
    LET diff == Difference(angle, num, den)
    IN  \/ diff.hi = 0 /\ diff.lo <= 360 * den
        \/ diff.hi = -1 /\ Base - diff.lo <= 360 * den

\* C20: for every angle whose count fits the signed 32-bit position range,
\* position_to_angle(angle_to_position(angle)) is the angle within plus or
\* minus 360 / 2^30 degrees.
C20_RoundTrip ==
    (op = "_position_to_angle" /\ pc = "done" /\ Fits("i", ret.val.position))
        => /\ Within(ret.val.angle, args.x, args.y)
           /\ args.y = 1 => ret.val.position = angle_to_position(args.x)

\* an angle a sixteenth of a degree under 720 has been converted and back:
\* its count fits and is a rounded one
C20_Witness ==
    /\ op = "_position_to_angle" /\ pc = "done"
    /\ args.x = 720 * 16 - 1 /\ args.y = 16
    /\ Fits("i", ret.val.position)
    /\ ret.val.position.hi > 2^14
    /\ Difference(ret.val.angle, args.x, args.y) # Wide(0)


\* ---------------------------------------------------------------------- C21
\* the waypoints of an upload in the order they are sent, and the waypoint of
\* transaction k (transaction 1 is SEND_TRAJECTORY_NEW)
Waypoints(a) == a.alpha \o a.beta
WaypointOf(a, k) == Waypoints(a)[k - 1]
IsWaypoint(a, k) == 2 <= k /\ k <= Len(Waypoints(a)) + 1

\* the timestamp of a waypoint: round(seconds * 2000)
Timestamp(coordinate) == seconds_to_timestamp(coordinate[2])

\* the upload is about to send, or has failed to pack, the waypoint of
\* transaction tx
AtWaypoint ==
    op = "send_trajectory" /\ IsWaypoint(args, tx) /\ Len(sent) = tx - 1

\* C21: every waypoint time whose timestamp lies in the unsigned 32-bit
\* range is encoded by send_trajectory into a SEND_TRAJECTORY_DATA payload
\* (the timestamp in its bytes 5 to 8, little-endian) and sent; no timestamp
\* in that range makes the operation fail.
C21_Original ==
    (AtWaypoint /\ Fits("I", Timestamp(WaypointOf(args, tx)))) =>
        /\ pc = "send" =>
            /\ cur[1].ok
            /\ cur[1].frame.cmd = "SEND_TRAJECTORY_DATA"
            /\ Field(cur[1].frame.data, 5, 4) = Timestamp(WaypointOf(args, tx))
        /\ ~(pc = "raised" /\ exc = "struct.error")

\* the upload has ended in struct.error on its second waypoint, whose
\* timestamp is in the unsigned 32-bit range and 2^31 or more, after the
\* first waypoint was sent
C21_Failure ==
    /\ AtWaypoint /\ tx = 3
    /\ pc = "raised" /\ exc = "struct.error"
    /\ Fits("I", Timestamp(WaypointOf(args, tx)))
    /\ ~Fits("i", Timestamp(WaypointOf(args, tx)))
    /\ Cmds(sent) = <<"SEND_TRAJECTORY_NEW", "SEND_TRAJECTORY_DATA">>

\* beside C21: every waypoint whose timestamp is below 2^31 is encoded and
\* given to the channel, and the upload fails to pack only on a timestamp of
\* 2^31 or more
C21_Signed ==
    AtWaypoint =>
        /\ (pc = "send" /\ Fits("i", Timestamp(WaypointOf(args, tx)))) =>
            /\ cur[1].ok
            /\ cur[1].frame.cmd = "SEND_TRAJECTORY_DATA"
            /\ Field(cur[1].frame.data, 5, 4) = Timestamp(WaypointOf(args, tx))
        /\ (pc = "raised" /\ exc = "struct.error")
            => ~Fits("i", Timestamp(WaypointOf(args, tx)))


\* ---------------------------------------------------------------------- C22
\* C22: when the channel's receive raises in the receive phase of a
\* transaction, polling stops at once (the call that raised is the last of
\* the transaction), the error is logged, the transaction yields None, and
\* the method goes on or ends without an exception.
C22_ReceiveRaises ==
    /\ [](/\ \A i \in 1..(Len(rxlog) - 1) : rxlog[i].kind # "raise"
          /\ ReceiveRaised => (pc # "recv" /\ answer = <<>>))
    /\ [][(pc = "recv" /\ ReceiveRaised')
            => (pc' = "handle" /\ answer' = <<>> /\ HasError(logs') /\ exc' = "")]_vars
    /\ [][(pc = "handle" /\ ReceiveRaised) => (pc' # "raised" /\ exc' = "")]_vars

\* the third receive call of a transaction has raised after two that gave
\* nothing: the error is logged and None is handed to the method
C22_Witness ==
    /\ pc = "handle" /\ ReceiveRaised /\ Len(rxlog) = 3
    /\ answer = <<>> /\ HasError(logs)


\* ---------------------------------------------------------------------- C23
\* the FIRMWARE_DATA frames of a file of n bytes: the file in chunks of 8
\* bytes, the last one shorter; one empty chunk for the empty file
ExpectedChunks(n) ==
    [k \in 1..(IF n = 0 THEN 1 ELSE Ceil8(n)) |->
        Frame("FIRMWARE_DATA",
              SubSeq(FileBytes(n), 8 * (k - 1) + 1, IF 8 * k < n THEN 8 * k ELSE n))]

\* the transaction of a chunk is over (tx = 1 is the header's)
ChunkHandled == op = "firmware_upgrade" /\ pc = "handle" /\ tx >= 2

\* C23: once the header of firmware_upgrade is acknowledged, a
\* FIRMWARE_DATA transaction without reply neither stops nor repeats the
\* transfer: the FIRMWARE_DATA frames sent are, in number, order and
\* content, those of the file whichever chunk transactions had replies, and
\* the operation ends by reporting the upgrade as done.
C23_ChunksRegardless ==
    /\ []((op = "firmware_upgrade" /\ tx >= 2) =>
            /\ pc # "raised"
            /\ Len(sent) - 1 <= Len(ExpectedChunks(args.filesize))
            /\ Tail(sent) = SubSeq(ExpectedChunks(args.filesize), 1, Len(sent) - 1)
            /\ pc = "done" =>
                /\ Tail(sent) = ExpectedChunks(args.filesize)
                /\ logs = <<Info("firmware upgrade done")>>)
    /\ [][(ChunkHandled /\ answer = <<>>) =>
            /\ sent' = sent
            /\ IF tx - 1 = Len(ExpectedChunks(args.filesize))
               THEN pc' = "done"
               ELSE pc' = "send" /\ cur'[1].ok
                    /\ cur'[1].frame = ExpectedChunks(args.filesize)[tx]]_vars

\* the first chunk of a file of 20 bytes had no reply in five receive calls
\* and the second chunk is about to be sent
C23_Witness ==
    /\ op = "firmware_upgrade" /\ args.filesize = 20
    /\ pc = "send" /\ tx = 3 /\ NoReply
    /\ Len(sent) = 2
    /\ cur[1].frame = ExpectedChunks(20)[2]


\* ---------------------------------------------------------------------- C24
\* the beta transaction of a paired axis method is over without reply
BetaNoReply == op \in PairedMethods /\ pc = "handle" /\ tx = 2 /\ answer = <<>>

\* C24: in a paired axis method the beta command is sent only after the
\* alpha command was acknowledged; when the beta transaction then has no
\* reply the method ends at once with the error logged and None returned,
\* the alpha and the beta command being the two frames sent (no second beta,
\* no command that undoes alpha), and nothing is sent after its end.
C24_MixedMode ==
    /\ [][(op \in PairedMethods /\ tx = 1 /\ tx' = 2) => (answer # <<>> /\ KnownReply)]_vars
    /\ [][BetaNoReply
            => /\ pc' = "done"
               /\ ret' = None
               /\ HasError(logs')
               /\ sent' = sent
               /\ Cmds(sent) = <<Pair(op).alpha, Pair(op).beta>>]_vars
    /\ [][(op \in PairedMethods /\ pc = "done") => (pc' = "idle" /\ sent' = <<>>)]_vars

\* a paired method is over after an acknowledged alpha command and a beta
\* command without reply in five receive calls
C24_Witness ==
    /\ op \in PairedMethods /\ pc = "done" /\ tx = 2
    /\ NoReply /\ answer = <<>>
    /\ Cmds(sent) = <<Pair(op).alpha, Pair(op).beta>>
    /\ HasError(logs)


\* ---------------------------------------------------------------------- C25
\* the SEND_TRAJECTORY_NEW transaction of send_trajectory is over without
\* reply
NewNoReply == op = "send_trajectory" /\ pc = "handle" /\ tx = 1 /\ answer = <<>>

\* C25: when the SEND_TRAJECTORY_NEW transaction of send_trajectory has no
\* reply, the operation returns at once: SEND_TRAJECTORY_NEW is the one
\* frame sent, and no SEND_TRAJECTORY_DATA or SEND_TRAJECTORY_DATA_END
\* frame is sent before the operation is left.
C25_NewNoReply ==
    /\ [][NewNoReply
            => /\ pc' = "done"
               /\ ret' = None
               /\ tx' = 1
               /\ sent' = sent
               /\ Cmds(sent) = <<"SEND_TRAJECTORY_NEW">>]_vars
    /\ []((op = "send_trajectory" /\ tx = 1) =>
            \A i \in 1..Len(sent) : sent[i].cmd = "SEND_TRAJECTORY_NEW")
    /\ [][(op = "send_trajectory" /\ pc = "done") => (pc' = "idle" /\ sent' = <<>>)]_vars

\* an upload of three waypoints is over after a SEND_TRAJECTORY_NEW that
\* had no reply in five receive calls
C25_Witness ==
    /\ op = "send_trajectory" /\ pc = "done" /\ tx = 1
    /\ Len(Waypoints(args)) = 3
    /\ NoReply /\ answer = <<>>
    /\ Cmds(sent) = <<"SEND_TRAJECTORY_NEW">>


\* ---------------------------------------------------------------------- C26
\* the transaction of a waypoint of send_trajectory is over without reply
WaypointNoReply ==
    op = "send_trajectory" /\ pc = "handle" /\ IsWaypoint(args, tx) /\ answer = <<>>

\* the number of SEND_TRAJECTORY_DATA_END frames among the frames sent
EndsSent == Cardinality({i \in 1..Len(sent) : sent[i].cmd = "SEND_TRAJECTORY_DATA_END"})

\* C26: once SEND_TRAJECTORY_NEW is acknowledged, a waypoint transaction
\* without reply does not abort the upload: the next frame is sent, and
\* when the operation has ended every waypoint was sent and
\* SEND_TRAJECTORY_DATA_END was sent exactly once, last.
C26_Original ==
    /\ [][WaypointNoReply
            => /\ pc' = "send"
               /\ cur'[1].ok
               /\ cur'[1].frame.cmd = ExpectedTrajectory(args)[tx + 1].cmd]_vars
    /\ []((op = "send_trajectory" /\ pc \in {"done", "raised"} /\ tx >= 2) =>
            /\ Len(sent) = Len(Waypoints(args)) + 2
            /\ EndsSent = 1
            /\ sent[Len(sent)].cmd = "SEND_TRAJECTORY_DATA_END")

\* the first waypoint had no reply in five receive calls, and the upload has
\* ended in struct.error on the second: neither it nor
\* SEND_TRAJECTORY_DATA_END was sent
C26_Failure ==
    /\ op = "send_trajectory" /\ pc = "raised" /\ exc = "struct.error"
    /\ tx = 3 /\ NoReply
    /\ Len(Waypoints(args)) >= 2
    /\ Cmds(sent) = <<"SEND_TRAJECTORY_NEW", "SEND_TRAJECTORY_DATA">>
    /\ EndsSent = 0

\* beside C26: a waypoint transaction without reply is followed by the
\* next waypoint or, after the last, by SEND_TRAJECTORY_DATA_END, and an
\* upload that returns after an acknowledged SEND_TRAJECTORY_NEW has sent
\* every waypoint and SEND_TRAJECTORY_DATA_END exactly once, last
C26_NoAbort ==
    /\ [][WaypointNoReply
            => /\ pc' = "send"
               /\ sent' = sent
               /\ cur'[1].frame.cmd = ExpectedTrajectory(args)[tx + 1].cmd]_vars
    /\ []((op = "send_trajectory" /\ pc = "done" /\ tx >= 2) =>
            /\ Len(sent) = Len(Waypoints(args)) + 2
            /\ EndsSent = 1
            /\ sent[Len(sent)].cmd = "SEND_TRAJECTORY_DATA_END")


\* ---------------------------------------------------------------------- C27
\* the step in which wait_move returns
WaitMoveReturns == op = "wait_move" /\ pc = "handle" /\ pc' = "done"

\* C27: wait_move returns only on a status reply, received in that call,
\* that reported displacement_completed set; it never returns on a flag
\* left in the status by an earlier query when its own query had no reply.
C27_Original ==
    [][WaitMoveReturns => (FlagReply /\ GetStatus.exc = "")]_vars

\* wait_move has returned after one query that had no reply in five receive
\* calls, the status holding displacement_completed from an earlier call
C27_Failure ==
    /\ op = "wait_move" /\ pc = "done"
    /\ Len(sent) = 1 /\ NoReply /\ answer = <<>>
    /\ displacement_completed(status) = 1

\* beside C27: wait_move returns on a status reply that reported
\* displacement_completed set or, its query having had no reply, on the
\* flag the status already held; with the flag clear it returns on such a
\* reply only
C27_StaleOrFresh ==
    [][WaitMoveReturns
        => /\ (FlagReply /\ GetStatus.exc = "")
                \/ (answer = <<>> /\ displacement_completed(status) = 1)
           /\ displacement_completed(status) # 1 => FlagReply]_vars


\* ---------------------------------------------------------------------- C28
\* the session while a move is under way: get_status and wait_move are the
\* methods called.  The steps of the code are taken when they can be (the methods are
\* straight-line code around their loops); calls are not forced.
CallStatus == Call /\ op' \in StatusMethods

WaitNext ==
    \/ CallStatus
    \/ Leave
    \/ send_command
    \/ get_answer
    \/ get_status
    \/ wait_move

WaitSpec ==
    /\ Init
    /\ [][WaitNext]_vars
    /\ WF_vars(send_command)
    /\ WF_vars(get_answer)
    /\ WF_vars(get_status)
    /\ WF_vars(wait_move)
    /\ WF_vars(Leave)

\* the channel is fair: wait_move is not left for ever without an answer
ChannelFair == []<>(op = "wait_move" => answer # <<>>)
\* the device is fair: from some point on every reply wait_move is given
\* reports displacement_completed set
DeviceFair == <>[]((op = "wait_move" /\ answer # <<>>) => FlagReply)
\* wait_move is under way, and wait_move has returned
InWaitMove == op = "wait_move" /\ pc \in {"send", "recv", "handle"}
WaitMoveReturned == op = "wait_move" /\ pc = "done"

\* C28: when a status query is eventually answered and from some point on
\* every status reply has displacement_completed set, wait_move eventually
\* returns.
C28_Original ==
    (ChannelFair /\ DeviceFair) => (InWaitMove ~> WaitMoveReturned)

\* wait_move has ended in KeyError on a status reply that reported
\* displacement_completed set under a response code that is in no table
C28_Failure ==
    /\ op = "wait_move" /\ pc = "raised" /\ exc = "KeyError"
    /\ FlagReply

\* beside C28: when moreover every reply wait_move is given is one
\* get_status decodes, wait_move eventually returns
C28_Decodable ==
    (ChannelFair /\ DeviceFair /\ []((op = "wait_move" /\ answer # <<>>) => GetStatus.exc = ""))
        => (InWaitMove ~> WaitMoveReturned)


\* ---------------------------------------------------------------------- C29
\* the session during firmware upgrades: every step of the code is taken
\* when it can be; calls are not forced.
CallFirmware == Call /\ op' = "firmware_upgrade"

FirmwareNext ==
    \/ CallFirmware
    \/ Leave
    \/ send_command
    \/ get_answer
    \/ firmware_upgrade

FirmwareSpec ==
    /\ Init
    /\ [][FirmwareNext]_vars
    /\ WF_vars(send_command)
    /\ WF_vars(get_answer)
    /\ WF_vars(firmware_upgrade)
    /\ WF_vars(Leave)

InUpgrade == op = "firmware_upgrade" /\ pc \in {"send", "recv", "handle"}
UpgradeEnded == op = "firmware_upgrade" /\ pc \in {"done", "raised"}

\* C29: firmware_upgrade of a file of n >= 0 bytes, from which as many
\* bytes are read as the header announced, terminates; the count of the
\* bytes sent never exceeds n; and for the empty file the chunk loop sends
\* exactly one FIRMWARE_DATA frame, with an empty payload.
C29_Terminates ==
    /\ InUpgrade ~> UpgradeEnded
    /\ [](op = "firmware_upgrade" =>
            /\ transfered_data <= args.filesize
            /\ (args.filesize = 0 /\ tx >= 2) =>
                /\ tx = 2
                /\ Len(sent) <= 2
                /\ pc \in {"recv", "handle", "done"} =>
                    Tail(sent) = <<Frame("FIRMWARE_DATA", <<>>)>>)

\* the upgrade of the empty file is over: the header and one empty chunk
\* were sent
C29_Witness ==
    /\ op = "firmware_upgrade" /\ pc = "done" /\ args.filesize = 0
    /\ Cmds(sent) = <<"SEND_NEW_FIRMWARE", "FIRMWARE_DATA">>
    /\ sent[2].data = <<>>
    /\ transfered_data = 0

====
